---- MODULE Spec2Model ----
\* A model of the UTXO pallet (src/pallets/utxo/src/lib.rs): the UTXO store,
\* the two token indexes, the reward accumulator, the transaction validator,
\* the storage update and the per-block reward dispersal.
\*
\* Hashes (BlakeTwo256) are modelled as injective: a key is the structured
\* value that was hashed, tagged by the place that hashes it.
\* Integer widths are scaled: Value (u128) ranges over 0..ValueMax and the
\* u64 priority of a certificate wraps modulo PriorityMod.
EXTENDS Integers, Sequences, FiniteSets, TLC

\* ---------------------------------------------------------------------------
\* Widths and program constants (scaled)
\* ---------------------------------------------------------------------------
\* u128::MAX, the largest Value
ValueMax == 7
\* 2^64: `reward as u64` keeps the reward modulo this
PriorityMod == 6
\* crate::tokens::Mlt(100).to_munit(), the fee per created token
CreationFee == 2
\* u32::MAX, the limit on the number of inputs and outputs
ListLimit == 9

\* ---------------------------------------------------------------------------
\* Bounds of the exploration
\* ---------------------------------------------------------------------------
\* accepted transactions per behaviour
MaxTx == 2
\* finalized blocks per behaviour
MaxBlock == 1

\* ---------------------------------------------------------------------------
\* Entities
\* ---------------------------------------------------------------------------
Accounts == {"A", "B"}
TokenIds == {1, 2}
DataHashes == {"H1", "H2"}

\* byte strings are sequences of numbers below 256
is_ascii(bytes) == \A i \in 1..Len(bytes) : bytes[i] < 128

\* BlakeTwo256::hash of a byte string
BlakeTwo256(bytes) == [hash_of |-> bytes]
\* Destination::EMPTY, the hash of the empty byte string
EMPTY == BlakeTwo256(<< >>)

\* Destination variants
Pubkey(pk) == [kind |-> "Pubkey", pk |-> pk]
CreatePP(code, data) == [kind |-> "CreatePP", code |-> code, data |-> data]
CallPP(acct, fund, data) == [kind |-> "CallPP", account |-> acct, fund |-> fund, data |-> data]
ScriptHash(h) == [kind |-> "ScriptHash", hash |-> h]

\* OutputData variants (NoData models Option::None)
NoData == [type |-> "None"]
TokenIssuanceV1(id, ticker, amount, decimals, uri) ==
    [type |-> "TokenIssuanceV1", token_id |-> id, token_ticker |-> ticker,
     amount_to_issue |-> amount, number_of_decimals |-> decimals, metadata_uri |-> uri]
TokenTransferV1(id, amount) == [type |-> "TokenTransferV1", token_id |-> id, amount |-> amount]
TokenBurnV1(id, amount) == [type |-> "TokenBurnV1", token_id |-> id, amount_to_burn |-> amount]
NftMintV1(id, hash, uri) ==
    [type |-> "NftMintV1", token_id |-> id, data_hash |-> hash, metadata_uri |-> uri]

TransactionOutput(value, destination, data) ==
    [value |-> value, destination |-> destination, data |-> data]
new_pubkey(value, pubkey) == TransactionOutput(value, Pubkey(pubkey), NoData)

TransactionInput(outpoint, lock, witness) ==
    [outpoint |-> outpoint, lock |-> lock, witness |-> witness]
lock_hash(input) == BlakeTwo256(input.lock)

lock_commitment(destination) ==
    IF destination.kind = "ScriptHash" THEN destination.hash ELSE EMPTY

Transaction(inputs, outputs, time_lock) ==
    [inputs |-> inputs, outputs |-> outputs, time_lock |-> time_lock]

\* Transaction::outpoint: the hash of the whole transaction (witnesses
\* included) and the output index
outpoint(tx, index) == [src |-> "tx", tx |-> tx, index |-> index]
\* the key of a genesis output
genesis_key(u) == [src |-> "genesis", output |-> u]
\* the key of a reward output
reward_key(utxo, b_num) == [src |-> "reward", output |-> utxo, block |-> b_num]

\* ---------------------------------------------------------------------------
\* Witnesses, signatures and scripts
\* ---------------------------------------------------------------------------
\* a witness holding raw bytes
Bytes(bytes) == [kind |-> "bytes", bytes |-> bytes]
\* a witness holding the 64 bytes of a signature made with the key `signer`
\* over the message `msg`
Signature(signer, msg) == [kind |-> "sig", signer |-> signer, msg |-> msg]
witness_len(w) == IF w.kind = "sig" THEN 64 ELSE Len(w.bytes)

\* get_simple_transaction: the transaction with every witness emptied
get_simple_transaction(tx) ==
    [tx EXCEPT !.inputs = [i \in 1..Len(tx.inputs) |->
                              [tx.inputs[i] EXCEPT !.witness = Bytes(<< >>)]]]

\* sign::TransactionSigMsg::construct with SigHash::default()
TransactionSigMsg(tx, utxos, index) ==
    [tx |-> get_simple_transaction(tx), utxos |-> utxos, index |-> index]

\* pubkey.parse_sig(witness): a signature object or none
parse_sig(witness) == witness.kind = "sig"
\* signature.verify(msg) under pubkey
verify_sig(pubkey, witness, msg) == witness.signer = pubkey /\ witness.msg = msg

\* the only script of the model, and the witness that satisfies it
ScriptLock == << 1 >>
ScriptWitness == Bytes(<< 81 >>)
\* crate::script::verify
script_verify(tx, utxos, index, witness, lock) ==
    lock = ScriptLock /\ witness = ScriptWitness

\* the witness coin_picker builds: Builder::new().push_int(0x1337)
OpSpendWitness == Bytes(<< 2, 55, 19 >>)
\* u16::from_le_bytes(witness[1..])
witness_opcode(w) == w.bytes[2] + 256 * w.bytes[3]

\* ---------------------------------------------------------------------------
\* Helpers
\* ---------------------------------------------------------------------------
Range(s) == {s[i] : i \in 1..Len(s)}

RECURSIVE SumSeq(_)
SumSeq(q) == IF Len(q) = 0 THEN 0 ELSE Head(q) + SumSeq(Tail(q))

\* BTreeMap::insert
MapPut(m, k, v) == [x \in (DOMAIN m) \cup {k} |-> IF x = k THEN v ELSE m[x]]
\* BTreeMap::get(k).unwrap_or(&0)
MapGetOr0(m, k) == IF k \in DOMAIN m THEN m[k] ELSE 0
EmptyMap == [x \in {} |-> 0]

\* the message of the first check that fails, "ok" when none fails;
\* checks is a sequence of <<holds, message>>
FirstError(checks) ==
    IF \A i \in 1..Len(checks) : checks[i][1] THEN "ok"
    ELSE checks[CHOOSE i \in 1..Len(checks) :
                  ~checks[i][1] /\ \A j \in 1..(i-1) : checks[j][1]][2]

\* OutputData::id()
DataId(data) == data.token_id

\* check_time_lock asking for a clock beyond the lock
check_time_lock_strict(host, tx) ==
    IF tx.time_lock.kind = "Blocks"
    THEN host.block_number > tx.time_lock.at
    ELSE host.now > tx.time_lock.at

\* Transaction::check_time_lock
check_time_lock(host, tx) ==
    IF tx.time_lock.kind = "Blocks"
    THEN host.block_number >= tx.time_lock.at
    ELSE host.now >= tx.time_lock.at

\* ---------------------------------------------------------------------------
\* validate_transaction
\* ---------------------------------------------------------------------------
\* The state of the pallet is the record
\*   [UtxoStore, TokenIssuanceTransactions, NftUniqueDataHash, RewardTotal]
\* and the host is the record [block_number, now].

\* a rejection: Err(msg)
Reject(msg) == [err |-> msg, priority |-> 0, requires |-> << >>, provides |-> << >>]
\* an abort of the call (index out of range, unwrap of None)
Panic == "panic"

\* inputs_unique without the comparison of the sizes
inputs_unique_unchecked(tx) == TRUE

\* lines 484-492: every input outpoint is used once
inputs_unique(tx) ==
    Cardinality({tx.inputs[i].outpoint : i \in 1..Len(tx.inputs)}) = Len(tx.inputs)
\* lines 497-504: every output is defined once
outputs_unique(tx) == Cardinality(Range(tx.outputs)) = Len(tx.outputs)

\* lines 517-535, the result Err(missing): the outpoints absent from the store
missing_inputs(st, tx) ==
    LET absent(inp) == inp.outpoint \notin DOMAIN st.UtxoStore
        sel == SelectSeq(tx.inputs, absent)
    IN  [i \in 1..Len(sel) |-> sel[i].outpoint]
\* lines 517-535, the result Ok(resolved): the UTXOs of the inputs found
resolved_inputs(st, tx) ==
    LET present(inp) == inp.outpoint \in DOMAIN st.UtxoStore
        sel == SelectSeq(tx.inputs, present)
    IN  [i \in 1..Len(sel) |-> st.UtxoStore[sel[i].outpoint]]
\* locks_match without the comparison of the hashes
locks_match_unchecked(st, tx) == TRUE

\* lines 523-527: the lock of every input found matches the commitment
locks_match(st, tx) ==
    \A i \in 1..Len(tx.inputs) :
        tx.inputs[i].outpoint \in DOMAIN st.UtxoStore =>
            lock_hash(tx.inputs[i]) =
                lock_commitment(st.UtxoStore[tx.inputs[i].outpoint].destination)

\* lines 537-553: the token-carrying UTXOs spent, as <<token_id, output>>
full_inputs(st, tx) ==
    LET carries(inp) ==
            /\ inp.outpoint \in DOMAIN st.UtxoStore
            /\ st.UtxoStore[inp.outpoint].data.type \in
                   {"TokenTransferV1", "TokenIssuanceV1", "NftMintV1"}
        sel == SelectSeq(tx.inputs, carries)
    IN  [i \in 1..Len(sel) |->
            << st.UtxoStore[sel[i].outpoint].data.token_id, st.UtxoStore[sel[i].outpoint] >>]

\* the field checks of a TokenIssuanceV1 (lines 573-585 and 660-672)
issuance_field_checks(d) ==
    << << is_ascii(d.token_ticker), "token ticker has none ascii characters" >>,
       << is_ascii(d.metadata_uri), "metadata uri has none ascii characters" >>,
       << Len(d.token_ticker) <= 5, "token ticker is too long" >>,
       << Len(d.token_ticker) # 0, "token ticker can't be empty" >>,
       << Len(d.metadata_uri) <= 100, "token metadata uri is too long" >>,
       << d.amount_to_issue > 0, "output value must be nonzero" >>,
       << d.number_of_decimals <= 18, "too long decimals" >> >>

\* one round of the loop of lines 558-642; acc = [err, tokens, mlt]
input_step(st, input, acc) ==
    IF input.outpoint \notin DOMAIN st.UtxoStore
    THEN [acc EXCEPT !.err = "missing inputs"]
    ELSE
    LET output == st.UtxoStore[input.outpoint]
        d == output.data
        mlt == acc.mlt + output.value
    IN  CASE d.type = "TokenIssuanceV1" ->
               LET e == FirstError(
                        << << d.token_id \in DOMAIN st.TokenIssuanceTransactions,
                              "token has never been issued" >> >>
                        \o issuance_field_checks(d)
                        \o << << mlt <= ValueMax, "input value overflow" >> >>)
               IN  IF e # "ok" THEN [acc EXCEPT !.err = e]
                   ELSE [err |-> "ok",
                         tokens |-> MapPut(acc.tokens, d.token_id, d.amount_to_issue),
                         mlt |-> mlt]
          [] d.type = "TokenTransferV1" ->
               LET sum == MapGetOr0(acc.tokens, d.token_id) + d.amount
                   e == FirstError(
                        << << sum <= ValueMax, "input value overflow" >>,
                           << mlt <= ValueMax, "input value overflow" >> >>)
               IN  IF e # "ok" THEN [acc EXCEPT !.err = e]
                   ELSE [err |-> "ok",
                         tokens |-> MapPut(acc.tokens, d.token_id, sum),
                         mlt |-> mlt]
          [] d.type = "TokenBurnV1" -> acc
          [] d.type = "NftMintV1" ->
               LET e == FirstError(
                        << << d.token_id \in DOMAIN st.TokenIssuanceTransactions,
                              "unable to use an input where NFT has not minted yet" >>,
                           << d.data_hash \in DOMAIN st.NftUniqueDataHash,
                              "unable to use an input where NFT digital data was changed" >>,
                           << is_ascii(d.metadata_uri),
                              "metadata uri has none ascii characters" >> >>)
               IN  IF e # "ok" THEN [acc EXCEPT !.err = e]
                   ELSE [acc EXCEPT !.tokens = MapPut(acc.tokens, d.token_id, 1)]
          [] OTHER ->
               IF mlt <= ValueMax THEN [acc EXCEPT !.mlt = mlt]
               ELSE [acc EXCEPT !.err = "input value overflow"]

\* lines 556-642: total_value_of_input_tokens and mlt_amount_in_inputs
RECURSIVE input_totals(_, _, _, _)
input_totals(st, inputs, i, acc) ==
    IF i > Len(inputs) \/ acc.err # "ok" THEN acc
    ELSE input_totals(st, inputs, i + 1, input_step(st, inputs[i], acc))

\* one round of the loop of lines 646-731; acc = [err, tokens, mlt]
output_step(st, output, acc) ==
    LET d == output.data
        mlt == acc.mlt + output.value
    IN  CASE d.type = "TokenIssuanceV1" ->
               LET e == FirstError(
                        << << d.token_id \notin DOMAIN st.TokenIssuanceTransactions,
                              "token has already been issued" >> >>
                        \o issuance_field_checks(d)
                        \o << << mlt <= ValueMax, "input value overflow" >> >>)
               IN  IF e # "ok" THEN [acc EXCEPT !.err = e]
                   ELSE [err |-> "ok",
                         tokens |-> MapPut(acc.tokens, d.token_id, d.amount_to_issue),
                         mlt |-> mlt]
          [] d.type = "TokenTransferV1" ->
               LET sum == MapGetOr0(acc.tokens, d.token_id) + d.amount
                   e == FirstError(
                        << << sum <= ValueMax, "output value overflow" >>,
                           << mlt <= ValueMax, "input value overflow" >> >>)
               IN  IF e # "ok" THEN [acc EXCEPT !.err = e]
                   ELSE [err |-> "ok",
                         tokens |-> MapPut(acc.tokens, d.token_id, sum),
                         mlt |-> mlt]
          [] d.type = "TokenBurnV1" -> acc
          [] d.type = "NftMintV1" ->
               LET e == FirstError(
                        << << d.token_id \notin DOMAIN st.TokenIssuanceTransactions,
                              "token has already been issued" >>,
                           << d.data_hash \notin DOMAIN st.NftUniqueDataHash,
                              "digital data has already been minted" >>,
                           << is_ascii(d.metadata_uri),
                              "metadata uri has none ascii characters" >> >>)
               IN  IF e # "ok" THEN [acc EXCEPT !.err = e]
                   ELSE [acc EXCEPT !.tokens = MapPut(acc.tokens, d.token_id, 1)]
          [] OTHER ->
               IF mlt <= ValueMax THEN [acc EXCEPT !.mlt = mlt]
               ELSE [acc EXCEPT !.err = "output value overflow"]

\* lines 644-731: total_value_of_output_tokens and mlt_amount_in_outputs
RECURSIVE output_totals(_, _, _, _)
output_totals(st, outputs, i, acc) ==
    IF i > Len(outputs) \/ acc.err # "ok" THEN acc
    ELSE output_totals(st, outputs, i + 1, output_step(st, outputs[i], acc))

NoTotals == [err |-> "ok", tokens |-> EmptyMap, mlt |-> 0]

\* token_creation_ok looking at the issuance index only
token_creation_ok_unsupplied(st, tx) ==
    \A k \in 1..Len(tx.outputs) :
        tx.outputs[k].data.type \in {"TokenTransferV1", "TokenIssuanceV1"} =>
            tx.outputs[k].data.token_id \notin DOMAIN st.TokenIssuanceTransactions

\* lines 733-752: an output transferring or issuing a token that no spent
\* UTXO carries must name a token that is not in the issuance index
token_creation_ok(st, tx) ==
    LET fi == full_inputs(st, tx)
    IN  \A k \in 1..Len(tx.outputs) :
            LET output == tx.outputs[k]
            IN  output.data.type \in {"TokenTransferV1", "TokenIssuanceV1"} =>
                    \/ \E x \in 1..Len(fi) :
                           fi[x][1] = output.data.token_id /\ fi[x][2] # output
                    \/ output.data.token_id \notin DOMAIN st.TokenIssuanceTransactions

\* output_nonzero letting every output through
output_nonzero_unchecked(output) == TRUE

\* lines 759-773: the active amount of an output is not zero
output_nonzero(output) ==
    CASE output.data.type = "TokenIssuanceV1" -> output.data.amount_to_issue > 0
      [] output.data.type = "TokenTransferV1" -> output.data.amount > 0
      [] output.data.type = "TokenBurnV1" -> output.data.amount_to_burn > 0
      [] output.data.type = "NftMintV1" -> TRUE
      [] OTHER -> output.value > 0

\* lines 774-775: the key of output k (counted from 1) is not in the store
output_key_free(st, tx, k) == outpoint(tx, k - 1) \notin DOMAIN st.UtxoStore

\* lines 757-787: the checks of the outputs, in the order they are made
outputs_valid(st, tx) ==
    FirstError([j \in 1..(2 * Len(tx.outputs)) |->
        IF j % 2 = 1
        THEN << output_nonzero(tx.outputs[(j + 1) \div 2]), "output value must be nonzero" >>
        ELSE << output_key_free(st, tx, j \div 2), "output already exists" >>])

\* lines 776: provides, the keys of the new outputs
new_utxos(tx) == [k \in 1..Len(tx.outputs) |-> outpoint(tx, k - 1)]

\* token_supplied without the comparison
token_supplied_unchecked(input_value, output_value) == TRUE

\* lines 800-803: the inputs supply at least the amount of the outputs
token_supplied(input_value, output_value) == input_value >= output_value

\* creation_step taking every token without inputs for a new token
creation_step_lenient(tx, ins, outs, t, acc) ==
    IF t \in DOMAIN ins
    THEN IF token_supplied(ins[t], outs[t]) THEN acc
         ELSE [acc EXCEPT !.err = "output value must not exceed input value"]
    ELSE [acc EXCEPT !.num_creations = acc.num_creations + 1]

\* one round of the loop of lines 798-827, for the token id t;
\* acc = [err, num_creations]
creation_step(tx, ins, outs, t, acc) ==
    IF t \in DOMAIN ins
    THEN IF token_supplied(ins[t], outs[t]) THEN acc
         ELSE [acc EXCEPT !.err = "output value must not exceed input value"]
    ELSE
    LET named(x) == x.data.type # "None" /\ DataId(x.data) = t
        found == SelectSeq(tx.outputs, named)
    IN  IF Len(found) = 0 THEN [acc EXCEPT !.err = "corrupted output data"]
        ELSE IF found[1].data.type \in {"NftMintV1", "TokenIssuanceV1"}
        THEN [acc EXCEPT !.num_creations = acc.num_creations + 1]
        ELSE [acc EXCEPT !.err = "input for the token not found"]

\* lines 797-827: the loop over total_value_of_output_tokens, in key order
RECURSIVE count_creations(_, _, _, _, _)
count_creations(tx, ins, outs, todo, acc) ==
    IF todo = {} \/ acc.err # "ok" THEN acc
    ELSE LET t == CHOOSE x \in todo : \A y \in todo : x <= y
         IN  count_creations(tx, ins, outs, todo \ {t},
                             creation_step(tx, ins, outs, t, acc))

\* lines 828-831: the creation fee
fee_paid(mlt_amount_in_inputs, num_creations) ==
    mlt_amount_in_inputs >= num_creations * CreationFee

\* unlock_input taking every witness that parses as a signature
unlock_input_unverified(tx, input_utxos, index) ==
    LET input == tx.inputs[index]
        dest == input_utxos[index].destination
    IN  CASE dest.kind = "Pubkey" ->
               IF ~parse_sig(input.witness) THEN "bad signature format" ELSE "ok"
          [] dest.kind = "CreatePP" -> "ok"
          [] dest.kind = "CallPP" ->
               IF witness_len(input.witness) < 1 THEN Panic
               ELSE IF witness_len(input.witness) # 3
               THEN "Failed to convert witness to an opcode"
               ELSE IF witness_opcode(input.witness) # 4919 THEN "OP_SPEND not found"
               ELSE "ok"
          [] OTHER ->
               IF script_verify(tx, input_utxos, index - 1, input.witness, input.lock)
               THEN "ok" ELSE "script verification failed"

\* lines 833-867: the unlocking check of the input at index (counted from 1)
unlock_input(tx, input_utxos, index) ==
    LET input == tx.inputs[index]
        dest == input_utxos[index].destination
    IN  CASE dest.kind = "Pubkey" ->
               IF ~parse_sig(input.witness) THEN "bad signature format"
               ELSE IF ~verify_sig(dest.pk, input.witness,
                                   TransactionSigMsg(tx, input_utxos, index - 1))
               THEN "signature must be valid"
               ELSE "ok"
          [] dest.kind = "CreatePP" -> "ok"
          [] dest.kind = "CallPP" ->
               IF witness_len(input.witness) < 1 THEN Panic
               ELSE IF witness_len(input.witness) # 3
               THEN "Failed to convert witness to an opcode"
               ELSE IF witness_opcode(input.witness) # 4919 THEN "OP_SPEND not found"
               ELSE "ok"
          [] OTHER ->
               IF script_verify(tx, input_utxos, index - 1, input.witness, input.lock)
               THEN "ok" ELSE "script verification failed"

\* lines 833-868: the first input that fails to unlock decides
unlock_inputs(tx, input_utxos) ==
    LET n == IF Len(tx.inputs) < Len(input_utxos) THEN Len(tx.inputs) ELSE Len(input_utxos)
        res == [i \in 1..n |-> unlock_input(tx, input_utxos, i)]
    IN  IF \A i \in 1..n : res[i] = "ok" THEN "ok"
        ELSE res[CHOOSE i \in 1..n : res[i] # "ok" /\ \A j \in 1..(i-1) : res[j] = "ok"]

\* line 877: `reward as u64`
priority_of(reward) == reward % PriorityMod

\* lines 789-874: the checks made when every input was found;
\* the result is [err, reward]
check_math_and_signatures(st, tx, ins, outs) ==
    IF ~(outs.mlt <= ins.mlt)
    THEN [err |-> "output value must not exceed input value", reward |-> 0]
    ELSE
    LET c == count_creations(tx, ins.tokens, outs.tokens, DOMAIN outs.tokens,
                             [err |-> "ok", num_creations |-> 0])
    IN  IF c.err # "ok" THEN [err |-> c.err, reward |-> 0]
        ELSE IF ~fee_paid(ins.mlt, c.num_creations)
        THEN [err |-> "insufficient fee", reward |-> 0]
        ELSE LET u == unlock_inputs(tx, resolved_inputs(st, tx))
             IN  IF u # "ok" THEN [err |-> u, reward |-> 0]
                 ELSE [err |-> "ok", reward |-> ins.mlt - outs.mlt]

\* lines 465-883
validate_transaction(st, host, tx) ==
    LET e1 == FirstError(
              << << Len(tx.inputs) # 0, "no inputs" >>,
                 << Len(tx.outputs) # 0, "no outputs" >>,
                 << Len(tx.inputs) < ListLimit, "too many inputs" >>,
                 << Len(tx.outputs) < ListLimit, "too many outputs" >>,
                 << inputs_unique(tx), "each input should be used only once" >>,
                 << outputs_unique(tx), "each output should be used once" >>,
                 << check_time_lock(host, tx), "Time lock restrictions not satisfied" >>,
                 << locks_match(st, tx), "Lock hash does not match" >> >>)
    IN  IF e1 # "ok" THEN Reject(e1)
    ELSE
    LET ins == input_totals(st, tx.inputs, 1, NoTotals)
    IN  IF ins.err # "ok" THEN Reject(ins.err)
    ELSE
    LET outs == output_totals(st, tx.outputs, 1, NoTotals)
    IN  IF outs.err # "ok" THEN Reject(outs.err)
    ELSE IF ~token_creation_ok(st, tx) THEN Reject("no inputs for the token id")
    ELSE
    LET e2 == outputs_valid(st, tx)
        missing == missing_inputs(st, tx)
    IN  IF e2 # "ok" THEN Reject(e2)
    ELSE IF Len(missing) # 0
    THEN [err |-> "ok", priority |-> 0, requires |-> missing, provides |-> new_utxos(tx)]
    ELSE
    LET certificate(m) ==
            IF m.err # "ok" THEN Reject(m.err)
            ELSE [err |-> "ok", priority |-> priority_of(m.reward),
                  requires |-> << >>, provides |-> new_utxos(tx)]
    IN  certificate(check_math_and_signatures(st, tx, ins, outs))

\* ---------------------------------------------------------------------------
\* update_storage, spend, disperse_reward
\* ---------------------------------------------------------------------------
\* UtxoStore::insert; acc = [store, replaced], where replaced counts the
\* insertions that found an output under the key
insert_utxo(acc, key, utxo) ==
    [store |-> MapPut(acc.store, key, utxo),
     replaced |-> acc.replaced + (IF key \in DOMAIN acc.store THEN 1 ELSE 0)]

\* remove_inputs removing the first input only
remove_inputs_first_only(store, tx) ==
    [k \in (DOMAIN store) \ {tx.inputs[1].outpoint} |-> store[k]]

\* lines 898-902: UtxoStore::remove for every input
remove_inputs(store, tx) ==
    LET gone == {tx.inputs[i].outpoint : i \in 1..Len(tx.inputs)}
    IN  [k \in (DOMAIN store) \ gone |-> store[k]]

\* lines 426-439: ProgrammablePool::create is called and its result, Ok or
\* Err, is logged; acc = [store, replaced, issuance, nft]
create(host, caller, code, utxo_hash, utxo_value, data, acc) ==
    IF host.ProgrammablePool = "ok" THEN acc ELSE acc

\* call taking the output back when the contract engine fails
call_reverting(host, caller, dest, utxo_hash, utxo_value, fund_contract, data, acc) ==
    IF host.ProgrammablePool = "ok" THEN acc
    ELSE [acc EXCEPT !.store = [x \in (DOMAIN acc.store) \ {utxo_hash} |-> acc.store[x]]]

\* lines 441-463: ProgrammablePool::call is called and its result, Ok or Err,
\* is logged
call(host, caller, dest, utxo_hash, utxo_value, fund_contract, data, acc) ==
    IF host.ProgrammablePool = "ok" THEN acc ELSE acc

\* lines 904-946, one output (k counted from 1);
\* acc = [store, replaced, issuance, nft]
store_output(host, caller, tx, k, acc) ==
    LET output == tx.outputs[k]
        hash == outpoint(tx, k - 1)
        ins == insert_utxo([store |-> acc.store, replaced |-> acc.replaced], hash, output)
        indexed == output.destination.kind \in {"Pubkey", "ScriptHash"}
        inserted ==
            [store |-> ins.store,
             replaced |-> ins.replaced,
             issuance |->
                IF indexed /\ output.data.type \in {"NftMintV1", "TokenIssuanceV1"}
                THEN MapPut(acc.issuance, output.data.token_id, hash)
                ELSE acc.issuance,
             nft |->
                IF indexed /\ output.data.type = "NftMintV1"
                THEN MapPut(acc.nft, output.data.data_hash, hash)
                ELSE acc.nft]
    IN  CASE output.destination.kind = "CreatePP" ->
               create(host, caller, output.destination.code, hash, output.value,
                      output.destination.data, inserted)
          [] output.destination.kind = "CallPP" ->
               call(host, caller, output.destination.account, hash, output.value,
                    output.destination.fund, output.destination.data, inserted)
          [] OTHER -> inserted

RECURSIVE store_outputs(_, _, _, _, _)
store_outputs(host, caller, tx, k, acc) ==
    IF k > Len(tx.outputs) THEN acc
    ELSE store_outputs(host, caller, tx, k + 1, store_output(host, caller, tx, k, acc))

\* update_storage testing the overflow of the reward after its writes
update_storage_late_check(st, host, caller, tx, reward) ==
    LET acc == store_outputs(host, caller, tx, 1,
                   [store |-> remove_inputs(st.UtxoStore, tx), replaced |-> 0,
                    issuance |-> st.TokenIssuanceTransactions,
                    nft |-> st.NftUniqueDataHash])
        written == [UtxoStore |-> acc.store,
                    TokenIssuanceTransactions |-> acc.issuance,
                    NftUniqueDataHash |-> acc.nft,
                    RewardTotal |-> st.RewardTotal]
    IN  IF st.RewardTotal + reward > ValueMax
        THEN [err |-> "Reward overflow", st |-> written, replaced |-> acc.replaced]
        ELSE [err |-> "ok",
              st |-> [written EXCEPT !.RewardTotal = st.RewardTotal + reward],
              replaced |-> acc.replaced]

\* update_storage dropping the index entries of the outputs it removes
update_storage_unindexing(st, host, caller, tx, reward) ==
    IF st.RewardTotal + reward > ValueMax
    THEN [err |-> "Reward overflow", st |-> st, replaced |-> 0]
    ELSE
    LET gone == {tx.inputs[i].outpoint : i \in 1..Len(tx.inputs)}
        kept(index) == [x \in {y \in DOMAIN index : index[y] \notin gone} |-> index[x]]
        acc == store_outputs(host, caller, tx, 1,
                   [store |-> remove_inputs(st.UtxoStore, tx), replaced |-> 0,
                    issuance |-> kept(st.TokenIssuanceTransactions),
                    nft |-> kept(st.NftUniqueDataHash)])
    IN  [err |-> "ok",
         st |-> [UtxoStore |-> acc.store,
                 TokenIssuanceTransactions |-> acc.issuance,
                 NftUniqueDataHash |-> acc.nft,
                 RewardTotal |-> st.RewardTotal + reward],
         replaced |-> acc.replaced]

\* lines 887-949; the result is [err, st, replaced]
update_storage(st, host, caller, tx, reward) ==
    IF st.RewardTotal + reward > ValueMax
    THEN [err |-> "Reward overflow", st |-> st, replaced |-> 0]
    ELSE
    LET acc == store_outputs(host, caller, tx, 1,
                   [store |-> remove_inputs(st.UtxoStore, tx), replaced |-> 0,
                    issuance |-> st.TokenIssuanceTransactions,
                    nft |-> st.NftUniqueDataHash])
    IN  [err |-> "ok",
         st |-> [UtxoStore |-> acc.store,
                 TokenIssuanceTransactions |-> acc.issuance,
                 NftUniqueDataHash |-> acc.nft,
                 RewardTotal |-> st.RewardTotal + reward],
         replaced |-> acc.replaced]

\* lines 951-959; the result is [err, st, replaced, validity]
spend(st, host, caller, tx) ==
    LET stored(tx_validity, u) ==
            [err |-> u.err, st |-> u.st, replaced |-> u.replaced, validity |-> tx_validity]
        checked(tx_validity) ==
            IF tx_validity.err # "ok"
            THEN [err |-> tx_validity.err, st |-> st, replaced |-> 0,
                  validity |-> tx_validity]
            ELSE IF Len(tx_validity.requires) # 0
            THEN [err |-> "missing inputs", st |-> st, replaced |-> 0,
                  validity |-> tx_validity]
            ELSE stored(tx_validity, update_storage(st, host, caller, tx, tx_validity.priority))
    IN  checked(validate_transaction(st, host, tx))

\* reward_insert without the contains_key test
reward_insert_always(acc, hash, utxo) == insert_utxo(acc, hash, utxo)

\* lines 420-422: a reward output is inserted at an absent key only
reward_insert(acc, hash, utxo) ==
    IF hash \notin DOMAIN acc.store THEN insert_utxo(acc, hash, utxo) ELSE acc

\* lines 411-423: the loop over the authorities; acc = [store, replaced]
RECURSIVE pay_authorities(_, _, _, _, _)
pay_authorities(auths, i, share_value, block_number, acc) ==
    IF i > Len(auths) THEN acc
    ELSE LET utxo == new_pubkey(share_value, auths[i])
         IN  pay_authorities(auths, i + 1, share_value, block_number,
                 reward_insert(acc, reward_key(utxo, block_number), utxo))

\* share_value being one unit whenever the pool can be split
share_of_one(reward, n) == IF reward >= n THEN 1 ELSE 0

\* lines 395-396: reward.checked_div(auths.len()), for n > 0
share_of(reward, n) == reward \div n

\* the test of line 397 never holding
cannot_split_never(share_value) == FALSE

\* line 397: the pool cannot be split
cannot_split(share_value) == share_value = 0

\* the remainder being the pool itself
remainder_of_pool(reward, share_value, n) == reward

\* lines 403-406: reward.checked_sub(share_value * auths.len())
remainder_of(reward, share_value, n) == reward - share_value * n

\* lines 393-424; the result is [err, st, replaced]. RewardTotal::take()
\* (line 394) empties the pool before the division, so the pool is empty
\* where the division by no authorities panics.
disperse_reward(st, auths, block_number) ==
    LET reward == st.RewardTotal
        taken == [st EXCEPT !.RewardTotal = 0]
    IN  IF Len(auths) = 0 THEN [err |-> Panic, st |-> taken, replaced |-> 0]
        ELSE
        LET share_value == share_of(reward, Len(auths))
            remainder == remainder_of(reward, share_value, Len(auths))
        IN  IF cannot_split(share_value)
            THEN [err |-> "ok", st |-> [taken EXCEPT !.RewardTotal = reward],
                  replaced |-> 0]
            ELSE LET acc == pay_authorities(auths, 1, share_value, block_number,
                                [store |-> st.UtxoStore, replaced |-> 0])
                 IN  [err |-> "ok",
                      st |-> [taken EXCEPT !.UtxoStore = acc.store,
                                           !.RewardTotal = remainder],
                      replaced |-> acc.replaced]

\* ---------------------------------------------------------------------------
\* State
\* ---------------------------------------------------------------------------
VARIABLES
    UtxoStore,                  \* StorageMap H256 -> TransactionOutput
    TokenIssuanceTransactions,  \* StorageMap TokenId -> H256
    NftUniqueDataHash,          \* StorageMap NftDataHash -> H256
    RewardTotal,                \* StorageValue Value
    block_number,               \* frame_system::Pallet::block_number()
    now,                        \* pallet_timestamp::Pallet::now()
    last,                       \* the last call and its result
    spent,                      \* outpoints listed as input by an accepted transaction
    issued,                     \* TokenId -> number of TokenIssuanceV1 outputs accepted
    minted,                     \* NftDataHash -> number of NftMintV1 outputs accepted
    replaced,                   \* number of insertions that replaced a live output
    genesis_total,              \* sum of the values of the genesis outputs
    tx_count,                   \* number of accepted transactions
    LockedUtxos,                \* StorageMap H256 -> TransactionOutput (staking)
    StakingCount,               \* StorageMap AccountId -> (u64, Value) (staking)
    stk,                        \* the last staking call and its result
    ver                         \* the transaction under TransactionVerifier and its results

vars == << UtxoStore, TokenIssuanceTransactions, NftUniqueDataHash, RewardTotal,
           block_number, now, last, spent, issued, minted, replaced,
           genesis_total, tx_count, LockedUtxos, StakingCount, stk, ver >>
staking_vars == << LockedUtxos, StakingCount, stk >>
main_vars == << TokenIssuanceTransactions, NftUniqueDataHash, block_number, now, last,
                spent, issued, minted, replaced, genesis_total, tx_count >>

State == [UtxoStore |-> UtxoStore,
          TokenIssuanceTransactions |-> TokenIssuanceTransactions,
          NftUniqueDataHash |-> NftUniqueDataHash,
          RewardTotal |-> RewardTotal]
\* the runtime configuration T: the clocks and the contract engine, whose
\* create and call succeed ("ok") or fail ("failure")
Host == [block_number |-> block_number, now |-> now, ProgrammablePool |-> "ok"]

\* ---------------------------------------------------------------------------
\* The inputs of the exploration
\* ---------------------------------------------------------------------------
Ticker == << 65, 66, 67 >>
Uri == << 120 >>
Blocks(n) == [kind |-> "Blocks", at |-> n]
Timestamp(t) == [kind |-> "Timestamp", at |-> t]

\* genesis configurations (GenesisConfig::genesis_utxos)
GenesisConfigs ==
    { << new_pubkey(6, "A"), new_pubkey(6, "B") >>,
      << new_pubkey(6, "A"),
         TransactionOutput(2, CallPP("A", TRUE, << >>), NoData),
         TransactionOutput(1, ScriptHash(BlakeTwo256(ScriptLock)), NoData) >> }

\* the outputs transactions are built from
OutPlainB1 == new_pubkey(1, "B")
OutPlainA3 == new_pubkey(3, "A")
OutIssue == TransactionOutput(1, Pubkey("A"), TokenIssuanceV1(1, Ticker, 2, 2, Uri))
OutIssueAgain == TransactionOutput(0, Pubkey("A"), TokenIssuanceV1(1, Ticker, 1, 2, Uri))
OutTransfer1 == TransactionOutput(0, Pubkey("B"), TokenTransferV1(1, 1))
OutTransfer2 == TransactionOutput(0, Pubkey("A"), TokenTransferV1(1, 2))
OutTransferDear == TransactionOutput(ValueMax, Pubkey("B"), TokenTransferV1(1, 1))
OutTransferA1 == TransactionOutput(0, Pubkey("A"), TokenTransferV1(1, 1))
OutBurn == TransactionOutput(7, Pubkey("A"), TokenBurnV1(1, 1))
OutNft == TransactionOutput(0, Pubkey("A"), NftMintV1(2, "H1", Uri))
OutNftSameData == TransactionOutput(0, Pubkey("A"), NftMintV1(1, "H1", Uri))

OutputLists ==
    { << OutPlainB1 >>, << OutPlainA3 >>, << new_pubkey(0, "A") >>, << new_pubkey(7, "A") >>,
      << OutIssue >>, << OutIssueAgain >>, << OutTransfer1 >>, << OutTransfer2 >>, << OutBurn >>, << OutNft >>,
      << TransactionOutput(1, CallPP("A", TRUE, << >>), NoData) >>,
      << TransactionOutput(1, CreatePP(<< >>, << >>), TokenIssuanceV1(1, Ticker, 1, 2, Uri)) >>,
      << TransactionOutput(1, ScriptHash(BlakeTwo256(ScriptLock)), NoData) >>,
      << OutPlainB1, OutPlainA3 >>, << OutPlainB1, OutPlainB1 >>,
      << OutIssue, OutIssueAgain >>, << OutNft, OutNftSameData >>,
      << OutIssue, OutPlainB1 >>, << OutTransfer1, OutPlainB1 >>,
      << OutIssue, OutTransfer2 >>, << OutTransfer1, OutBurn >>,
      << OutTransfer1, OutTransferA1 >>, << OutTransferDear >>, << >> }

TimeLocks == { Blocks(0), Blocks(2), Timestamp(3) }

\* an outpoint that is never in the store
NeverKey == genesis_key(new_pubkey(0, "B"))

\* the lists of outpoints a transaction may name: one outpoint, one outpoint
\* twice, or two outpoints
OutpointLists ==
    LET cand == (DOMAIN UtxoStore) \cup spent \cup {NeverKey}
        pair(S) == CHOOSE q \in {<< a, b >> : a, b \in S} : q[1] # q[2]
    IN  {<< c >> : c \in cand}
        \cup {<< c, c >> : c \in DOMAIN UtxoStore}
        \cup {pair(S) : S \in {S \in SUBSET cand : Cardinality(S) = 2}}
        \cup {<< >>}

\* the lists of live outpoints: one outpoint or two
LiveLists == {ops \in OutpointLists : Len(ops) > 0 /\ Range(ops) \subseteq DOMAIN UtxoStore
                                       /\ Cardinality(Range(ops)) = Len(ops)}

Callers == {"A"}
WitnessModes == {"good", "empty", "wrong", "locked"}
OtherKey(pk) == CHOOSE a \in Accounts : a # pk

\* the lock of an input spending the output `utxo` (none when the outpoint is absent)
LockFor(mode, key) ==
    IF mode = "empty" THEN << >>
    ELSE IF mode = "locked" THEN ScriptLock
    ELSE IF key \in DOMAIN UtxoStore /\ UtxoStore[key].destination.kind = "ScriptHash"
    THEN ScriptLock ELSE << >>

\* the signatures of the right key over another message: that of another
\* input index, of another transaction body, of another list of spent UTXOs
SignatureModes == {"index", "body", "utxos"}
\* the message the signer of a witness signs
SignedMsg(mode, bare, utxos, index) ==
    CASE mode = "index" -> TransactionSigMsg(bare, utxos, index + 1)
      [] mode = "body" -> TransactionSigMsg([bare EXCEPT !.time_lock = Blocks(1)], utxos, index)
      [] mode = "utxos" -> TransactionSigMsg(bare, << >>, index)
      [] OTHER -> TransactionSigMsg(bare, utxos, index)

\* the witness of input i of the transaction `bare` (that has empty witnesses)
WitnessFor(mode, bare, i) ==
    LET key == bare.inputs[i].outpoint
        utxos == resolved_inputs(State, bare)
    IN  IF mode = "empty" \/ key \notin DOMAIN UtxoStore THEN Bytes(<< >>)
        ELSE LET dest == UtxoStore[key].destination
             IN  CASE dest.kind = "Pubkey" ->
                        Signature(IF mode = "wrong" THEN OtherKey(dest.pk) ELSE dest.pk,
                                  SignedMsg(mode, bare, utxos, i - 1))
                   [] dest.kind = "CallPP" ->
                        IF mode = "wrong" THEN Bytes(<< 2, 0, 0 >>) ELSE OpSpendWitness
                   [] dest.kind = "ScriptHash" ->
                        IF mode = "wrong" THEN Bytes(<< 0 >>) ELSE ScriptWitness
                   [] OTHER -> Bytes(<< >>)

BuildTx(ops, mode, outputs, time_lock) ==
    LET bare == Transaction(
                    [i \in 1..Len(ops) |->
                        TransactionInput(ops[i], LockFor(mode, ops[i]), Bytes(<< >>))],
                    outputs, time_lock)
    IN  [bare EXCEPT !.inputs = [i \in 1..Len(ops) |->
                        [bare.inputs[i] EXCEPT !.witness = WitnessFor(mode, bare, i)]]]

AuthorityLists == { << >>, << "A" >>, << "A", "B" >>, << "A", "A" >> }

\* ---------------------------------------------------------------------------
\* Initial state and actions
\* ---------------------------------------------------------------------------
NoTx == Transaction(<< >>, << >>, Blocks(0))
NoValidity == [err |-> "none", requires |-> << >>]
NoAmounts == [t \in TokenIds |-> 0]
\* the record of a call: the operation, its result, and what it was given
\*   tx        the transaction of an accepted spend
\*   validity  what validate_transaction returned
\*   plain     PlainWellFormed held of the transaction
\*   missing   the input outpoints that were absent from the store
\*   respend   an input outpoint had been spent by an accepted transaction
\*   native_in, native_out, token_in, token_out
\*             the native coin and the tokens of the spent UTXOs and of the
\*             outputs of an accepted transaction
\*   pool      RewardTotal before the call
\*   skipped   the authorities of a dispersal whose reward key was taken
\*   auths     the authorities of a dispersal
\*   duplicate two inputs of the transaction name the same outpoint
\*   reached   the clock the time lock of the transaction names is at or
\*             beyond the lock
\*   at_lock   what spend returns for the transaction in the same storage
\*             with that clock exactly at the lock
\*   engine_failed
\*             the transaction has a CreatePP or CallPP output and the
\*             contract engine failed
\*   issue_transfer
\*             IssueThenTransfer held of the transaction
\*   conservation_first
\*             ConservationFirst held of the transaction
\*   args      the arguments of send_conscrit_p2pk or send_conscrit_c2c
\*   read      the argument and the result of nft_read
\* the arguments of a call of send_conscrit_p2pk or send_conscrit_c2c, and
\* the answer of the contract engine during it
NoArgs == [caller |-> "A", dest |-> "A", value |-> 0, data |-> << >>, outpoints |-> << >>,
           pp |-> "ok"]
\* Option: None and Some(value)
None == [some |-> FALSE]
Some(value) == [some |-> TRUE, value |-> value]
\* the argument and the result of a call of nft_read
NoRead == [nft_id |-> "", result |-> None]
NoCall == [op |-> "none", err |-> "ok", tx |-> NoTx, validity |-> NoValidity,
           plain |-> FALSE, missing |-> << >>, respend |-> FALSE,
           native_in |-> 0, native_out |-> 0,
           token_in |-> NoAmounts, token_out |-> NoAmounts,
           pool |-> 0, skipped |-> 0, auths |-> << >>,
           duplicate |-> FALSE, reached |-> TRUE, at_lock |-> "ok",
           engine_failed |-> FALSE, issue_transfer |-> FALSE,
           conservation_first |-> FALSE, args |-> NoArgs,
           read |-> NoRead]

\* GenesisBuild::build (lines 1094-1099)
genesis_build(genesis_utxos) ==
    [k \in {genesis_key(u) : u \in Range(genesis_utxos)} |-> k.output]

\* no staking call
NoVerifier == [tx |-> [inputs |-> << >>, outputs |-> << >>,
                       time_lock |-> [kind |-> "Blocks", at |-> 0]],
               inputs |-> "pending", outputs |-> "pending"]
NoStake == [op |-> "none", err |-> "ok", stash |-> "A", outpoints |-> << >>, done |-> 0]

Init ==
    \E g \in GenesisConfigs :
        /\ UtxoStore = genesis_build(g)
        /\ TokenIssuanceTransactions = EmptyMap
        /\ NftUniqueDataHash = EmptyMap
        /\ RewardTotal = 0
        /\ block_number = 1
        /\ now = 2
        /\ last = NoCall
        /\ spent = {}
        /\ issued = [t \in TokenIds |-> 0]
        /\ minted = [h \in DataHashes |-> 0]
        /\ replaced = 0
        /\ genesis_total = SumSeq([i \in 1..Len(g) |-> g[i].value])
        /\ tx_count = 0
        /\ LockedUtxos = EmptyMap
        /\ StakingCount = EmptyMap
        /\ stk = NoStake
        /\ ver = NoVerifier

\* a transaction that breaks no rule but, possibly, that of known inputs:
\* well-formed lists, time lock reached, matching locks, data-free outputs of
\* non-zero value at free keys
PlainWellFormed(st, host, tx) ==
    /\ Len(tx.inputs) # 0 /\ Len(tx.outputs) # 0
    /\ Cardinality({tx.inputs[i].outpoint : i \in 1..Len(tx.inputs)}) = Len(tx.inputs)
    /\ Cardinality(Range(tx.outputs)) = Len(tx.outputs)
    /\ check_time_lock(host, tx)
    /\ locks_match(st, tx)
    /\ \A k \in 1..Len(tx.outputs) :
          /\ tx.outputs[k].data = NoData
          /\ tx.outputs[k].value > 0
          /\ outpoint(tx, k - 1) \notin DOMAIN st.UtxoStore

\* the native coin an output holds for the accounting of section 4.3:
\* burn and NFT outputs hold none
NativeOf(output) ==
    IF output.data.type \in {"TokenBurnV1", "NftMintV1"} THEN 0 ELSE output.value
\* the amount of token t an output carries
TokenOf(output, t) ==
    CASE output.data.type = "TokenIssuanceV1" /\ output.data.token_id = t ->
             output.data.amount_to_issue
      [] output.data.type = "TokenTransferV1" /\ output.data.token_id = t ->
             output.data.amount
      [] output.data.type = "NftMintV1" /\ output.data.token_id = t -> 1
      [] OTHER -> 0
\* the UTXOs a transaction spends, when all are in the store
SpentUtxos(store, tx) == [i \in 1..Len(tx.inputs) |-> store[tx.inputs[i].outpoint]]
NativeSum(outputs) == SumSeq([i \in 1..Len(outputs) |-> NativeOf(outputs[i])])
TokenSum(outputs, t) == SumSeq([i \in 1..Len(outputs) |-> TokenOf(outputs[i], t)])

CountOutputs(tx, P(_)) == Cardinality({k \in 1..Len(tx.outputs) : P(tx.outputs[k])})

\* the clock a time lock is measured on
ClockOf(host, time_lock) ==
    IF time_lock.kind = "Blocks" THEN host.block_number ELSE host.now
\* the host with that clock exactly at the lock
HostAtLock(host, time_lock) ==
    IF time_lock.kind = "Blocks" THEN [host EXCEPT !.block_number = time_lock.at]
    ELSE [host EXCEPT !.now = time_lock.at]

\* the transaction passes the structural and temporal rules, all its inputs
\* are live data-free UTXOs with matching locks, its outputs are data-free
\* with a value above 0 or transfers of more than 0, and the native coin of
\* its outputs exceeds that of its inputs
ConservationFirst(st, host, tx) ==
    /\ Len(tx.inputs) # 0 /\ Len(tx.outputs) # 0
    /\ Cardinality({tx.inputs[i].outpoint : i \in 1..Len(tx.inputs)}) = Len(tx.inputs)
    /\ Cardinality(Range(tx.outputs)) = Len(tx.outputs)
    /\ check_time_lock(host, tx)
    /\ \A i \in 1..Len(tx.inputs) :
          /\ tx.inputs[i].outpoint \in DOMAIN st.UtxoStore
          /\ st.UtxoStore[tx.inputs[i].outpoint].data = NoData
    /\ locks_match(st, tx)
    /\ \A k \in 1..Len(tx.outputs) :
          \/ tx.outputs[k].data = NoData /\ tx.outputs[k].value > 0
          \/ tx.outputs[k].data.type = "TokenTransferV1" /\ tx.outputs[k].data.amount > 0
    /\ NativeSum(tx.outputs) > NativeSum(SpentUtxos(st.UtxoStore, tx))

\* the transaction spends, as its only input and with the signature of the
\* owner, a Pubkey output that is the one issuance of a token by the
\* transaction that made it, and its outputs are transfers of that token
\* whose amounts add up to the amount issued; RewardTotal has room for the
\* native coin of the input
IssueThenTransfer(st, host, tx) ==
    /\ Len(tx.inputs) = 1 /\ Len(tx.outputs) >= 1
    /\ tx.inputs[1].outpoint \in DOMAIN st.UtxoStore
    /\ LET o == tx.inputs[1].outpoint
           u == st.UtxoStore[o]
       IN  /\ u.data.type = "TokenIssuanceV1"
           /\ u.destination.kind = "Pubkey"
           /\ o.src = "tx"
           /\ Cardinality({k \in 1..Len(o.tx.outputs) :
                              /\ o.tx.outputs[k].data.type = "TokenIssuanceV1"
                              /\ o.tx.outputs[k].data.token_id = u.data.token_id}) = 1
           /\ \A k \in 1..Len(tx.outputs) :
                  /\ tx.outputs[k].data.type = "TokenTransferV1"
                  /\ tx.outputs[k].data.token_id = u.data.token_id
                  /\ tx.outputs[k].data.amount > 0
           /\ Cardinality(Range(tx.outputs)) = Len(tx.outputs)
           /\ TokenSum(tx.outputs, u.data.token_id) = u.data.amount_to_issue
           /\ SumSeq([k \in 1..Len(tx.outputs) |-> tx.outputs[k].value]) <= u.value
           /\ st.RewardTotal + u.value <= ValueMax
           /\ tx.inputs[1].lock = << >>
           /\ tx.inputs[1].witness = Signature(u.destination.pk,
                                              TransactionSigMsg(tx, << u >>, 0))
           /\ ClockOf(host, tx.time_lock) >= tx.time_lock.at

\* the transaction has an output that update_storage hands to the contract
\* engine
CallsEngine(tx) ==
    \E k \in 1..Len(tx.outputs) : tx.outputs[k].destination.kind \in {"CreatePP", "CallPP"}
\* the results of the contract engine that make a difference to a call
PoolResults(tx) == IF CallsEngine(tx) THEN {"ok", "failure"} ELSE {"ok"}

\* the dispatchable spend (lines 1000-1007) calling spend (lines 951-959),
\* the contract engine answering pp
SpendTx(caller, tx, pp) ==
    /\ \E r \in {spend(State, [Host EXCEPT !.ProgrammablePool = pp], caller, tx)} :
       LET ok == r.err = "ok"
       IN  /\ UtxoStore' = r.st.UtxoStore
           /\ TokenIssuanceTransactions' = r.st.TokenIssuanceTransactions
           /\ NftUniqueDataHash' = r.st.NftUniqueDataHash
           /\ RewardTotal' = r.st.RewardTotal
           /\ replaced' = replaced + r.replaced
           /\ last' = [op |-> "spend", err |-> r.err,
                       tx |-> IF ok THEN tx ELSE NoTx,
                       validity |-> [err |-> r.validity.err,
                                     requires |-> r.validity.requires],
                       plain |-> PlainWellFormed(State, Host, tx),
                       missing |-> missing_inputs(State, tx),
                       respend |-> \E i \in 1..Len(tx.inputs) :
                                       tx.inputs[i].outpoint \in spent,
                       native_in |-> IF ok THEN NativeSum(SpentUtxos(UtxoStore, tx)) ELSE 0,
                       native_out |-> IF ok THEN NativeSum(tx.outputs) ELSE 0,
                       token_in |-> IF ok
                           THEN [t \in TokenIds |-> TokenSum(SpentUtxos(UtxoStore, tx), t)]
                           ELSE NoAmounts,
                       token_out |-> IF ok
                           THEN [t \in TokenIds |-> TokenSum(tx.outputs, t)]
                           ELSE NoAmounts,
                       pool |-> RewardTotal,
                       skipped |-> 0,
                       auths |-> << >>,
                       duplicate |-> \E i, j \in 1..Len(tx.inputs) :
                                         i # j /\ tx.inputs[i].outpoint = tx.inputs[j].outpoint,
                       reached |-> ClockOf(Host, tx.time_lock) >= tx.time_lock.at,
                       at_lock |-> spend(State, HostAtLock(Host, tx.time_lock), caller, tx).err,
                       engine_failed |-> CallsEngine(tx) /\ pp = "failure",
                       issue_transfer |-> IssueThenTransfer(State, Host, tx),
                       conservation_first |-> ConservationFirst(State, Host, tx),
                       args |-> NoArgs, read |-> NoRead]
           /\ spent' = IF ok THEN spent \cup {tx.inputs[i].outpoint : i \in 1..Len(tx.inputs)}
                       ELSE spent
           /\ issued' = IF ~ok THEN issued ELSE
                  [t \in TokenIds |-> issued[t] +
                      LET P(o) == o.data.type = "TokenIssuanceV1" /\ o.data.token_id = t
                      IN  CountOutputs(tx, P)]
           /\ minted' = IF ~ok THEN minted ELSE
                  [h \in DataHashes |-> minted[h] +
                      LET P(o) == o.data.type = "NftMintV1" /\ o.data.data_hash = h
                      IN  CountOutputs(tx, P)]
           /\ tx_count' = IF ok THEN tx_count + 1 ELSE tx_count
    /\ UNCHANGED << block_number, now, genesis_total >>

\* the order of H256 values on the hashes of a list: hashes are opaque, so
\* the order is one total order of the hashes
hash_rank(hashes) ==
    CHOOSE f \in [hashes -> 1..Cardinality(hashes)] :
        \A a, b \in hashes : a # b => f[a] # f[b]

\* coin_picker leaving the outpoints in the order given
sort_keeping_order(outpoints) == outpoints

\* line 1131: outpoints.sort()
sort(outpoints) ==
    LET ascending(rank) == SortSeq(outpoints, LAMBDA a, b : rank[a] < rank[b])
    IN  ascending(hash_rank(Range(outpoints)))

\* lines 1133-1147: the loop over the sorted outpoints, stopping at the
\* first that is not in the store or not a CallPP output
RECURSIVE pick_inputs(_, _, _, _)
pick_inputs(st, outpoints, i, inputs) ==
    IF i > Len(outpoints) THEN [err |-> "ok", inputs |-> inputs]
    ELSE IF outpoints[i] \notin DOMAIN st.UtxoStore
    THEN [err |-> "UTXO doesn't exist!", inputs |-> << >>]
    ELSE IF st.UtxoStore[outpoints[i]].destination.kind # "CallPP"
    THEN [err |-> "Only CallPP vouts can be spent!", inputs |-> << >>]
    ELSE pick_inputs(st, outpoints, i + 1,
             Append(inputs, TransactionInput(outpoints[i], << >>, OpSpendWitness)))

\* coin_picker (lines 1126-1150)
coin_picker(st, outpoints) == pick_inputs(st, sort(outpoints), 1, << >>)

\* the common body of send_conscrit_p2pk and send_conscrit_c2c: the inputs
\* of coin_picker, one output, the default time lock, and every error of
\* spend mapped to one message
send_conscrit(st, host, caller, output, outpoints) ==
    LET sent(tx, r) ==
            [err |-> IF r.err \in {"ok", Panic} THEN r.err
                     ELSE "Failed to spend the transaction!",
             st |-> r.st, replaced |-> r.replaced, tx |-> tx]
        built(tx) == sent(tx, spend(st, host, caller, tx))
        picked(p) ==
            IF p.err # "ok"
            THEN [err |-> p.err, st |-> st, replaced |-> 0, tx |-> NoTx]
            ELSE built(Transaction(p.inputs, << output >>, Blocks(0)))
    IN  picked(coin_picker(st, outpoints))

\* UtxoApi::send_conscrit_p2pk (lines 1175-1194)
send_conscrit_p2pk(st, host, caller, dest, value, outpoints) ==
    send_conscrit(st, host, caller, new_pubkey(value, dest), outpoints)

\* UtxoApi::send_conscrit_c2c (lines 1196-1218)
send_conscrit_c2c(st, host, caller, dest, value, data, outpoints) ==
    send_conscrit(st, host, caller,
                  TransactionOutput(value, CallPP(dest, TRUE, data), NoData), outpoints)

\* what a call of send_conscrit_p2pk or send_conscrit_c2c that returned r
\* leaves behind
SendConscrit(op, args, r) ==
    /\ UtxoStore' = r.st.UtxoStore
    /\ TokenIssuanceTransactions' = r.st.TokenIssuanceTransactions
    /\ NftUniqueDataHash' = r.st.NftUniqueDataHash
    /\ RewardTotal' = r.st.RewardTotal
    /\ replaced' = replaced + r.replaced
    /\ last' = [NoCall EXCEPT !.op = op, !.err = r.err,
                              !.tx = IF r.err = "ok" THEN r.tx ELSE NoTx,
                              !.pool = RewardTotal, !.args = args]
    /\ spent' = IF r.err = "ok"
                THEN spent \cup {r.tx.inputs[i].outpoint : i \in 1..Len(r.tx.inputs)}
                ELSE spent
    /\ tx_count' = IF r.err = "ok" THEN tx_count + 1 ELSE tx_count
    /\ UNCHANGED << issued, minted, block_number, now, genesis_total >>

SendConscritP2pk(caller, dest, value, outpoints) ==
    \E r \in {send_conscrit_p2pk(State, Host, caller, dest, value, outpoints)} :
        SendConscrit("send_conscrit_p2pk",
                     [NoArgs EXCEPT !.caller = caller, !.dest = dest, !.value = value,
                                    !.outpoints = outpoints],
                     r)

SendConscritC2c(caller, dest, value, data, outpoints, pp) ==
    \E r \in {send_conscrit_c2c(State, [Host EXCEPT !.ProgrammablePool = pp],
                                 caller, dest, value, data, outpoints)} :
        SendConscrit("send_conscrit_c2c",
                     [caller |-> caller, dest |-> dest, value |-> value, data |-> data,
                      outpoints |-> outpoints, pp |-> pp],
                     r)

\* TokenId::from_string: the token id a string names, when it names one;
\* the strings of the model are "1", "2" and "?", which names none
TokenId_from_string(str) ==
    CASE str = "1" -> Some(1)
      [] str = "2" -> Some(2)
      [] OTHER -> None

\* Encode::encode of a data hash
encode(data_hash) == [scale |-> data_hash]

\* get_output_by_token_id (lines 375-380)
get_output_by_token_id(st, token_id) ==
    IF token_id \notin DOMAIN st.TokenIssuanceTransactions THEN None
    ELSE IF st.TokenIssuanceTransactions[token_id] \notin DOMAIN st.UtxoStore THEN None
    ELSE Some(st.UtxoStore[st.TokenIssuanceTransactions[token_id]])

\* nft_read answering for every output that has a metadata uri
nft_read_any_data(st, nft_id) ==
    LET found(id) ==
            IF ~id.some THEN None
            ELSE LET answer(output) ==
                         IF ~output.some THEN None
                         ELSE IF output.value.data.type \in {"NftMintV1", "TokenIssuanceV1"}
                         THEN Some(<< output.value.data.metadata_uri, encode("H1") >>)
                         ELSE None
                 IN  answer(get_output_by_token_id(st, id.value))
    IN  found(TokenId_from_string(nft_id))

\* Pallet::nft_read (lines 1108-1123)
nft_read(st, nft_id) ==
    LET found(id) ==
            IF ~id.some THEN None
            ELSE LET answer(output) ==
                         IF ~output.some THEN None
                         ELSE IF output.value.data.type = "NftMintV1"
                         THEN Some(<< output.value.data.metadata_uri,
                                      encode(output.value.data.data_hash) >>)
                         ELSE None
                 IN  answer(get_output_by_token_id(st, id.value))
    IN  found(TokenId_from_string(nft_id))

\* a call of nft_read: it writes nothing
NftRead(nft_id) ==
    /\ last' = [NoCall EXCEPT !.op = "nft_read",
                              !.read = [nft_id |-> nft_id, result |-> nft_read(State, nft_id)]]
    /\ UNCHANGED << UtxoStore, TokenIssuanceTransactions, NftUniqueDataHash, RewardTotal,
                    block_number, now, spent, issued, minted, replaced, genesis_total,
                    tx_count >>

\* bech32::decode and Destination::decode of an address: an address of the
\* model is the result of bech32::decode ("ok" or the error) and the
\* destination its data decode to (NoDestination when they decode to none)
NoDestination == [kind |-> "none"]
decode_address(address) ==
    IF address.bech32 # "ok"
    THEN [err |-> "Failed to decode address: " \o address.bech32, dest |-> NoDestination]
    ELSE IF address.data = NoDestination
    THEN [err |-> "Failed to decode buffer into Destination", dest |-> NoDestination]
    ELSE [err |-> "ok", dest |-> address.data]

\* pick_utxo (lines 969-995): UtxoStore::iter() visits the keys in the
\* order `order`; acc = [total, hashes, utxos]
RECURSIVE pick_utxo_from(_, _, _, _, _, _)
pick_utxo_from(st, caller, value, order, i, acc) ==
    IF i > Len(order) THEN acc
    ELSE LET utxo == st.UtxoStore[order[i]]
         IN  IF utxo.destination.kind = "Pubkey" /\ utxo.destination.pk = caller
             THEN LET picked == [total |-> acc.total + utxo.value,
                                 hashes |-> Append(acc.hashes, order[i]),
                                 utxos |-> Append(acc.utxos, utxo)]
                  IN  IF picked.total >= value THEN picked
                      ELSE pick_utxo_from(st, caller, value, order, i + 1, picked)
             ELSE pick_utxo_from(st, caller, value, order, i + 1, acc)
pick_utxo(st, caller, value, order) ==
    pick_utxo_from(st, caller, value, order, 1, [total |-> 0, hashes |-> << >>, utxos |-> << >>])

\* Transaction::sign (lines 305-321) for every input in turn, the key of
\* pk being in the keystore
RECURSIVE sign_inputs(_, _, _, _)
sign_inputs(tx, utxos, pk, i) ==
    IF i > Len(tx.inputs) THEN tx
    ELSE sign_inputs([tx EXCEPT !.inputs[i].witness =
                                    Signature(pk, TransactionSigMsg(tx, utxos, i - 1))],
                     utxos, pk, i + 1)

\* Pallet::send_to_address (lines 1010-1074)
send_to_address(st, host, signer, value, address, order) ==
    LET picked(dest, p) ==
            IF p.total < value
            THEN [err |-> "Caller doesn't have enough UTXOs", st |-> st, replaced |-> 0,
                  tx |-> NoTx, total |-> p.total]
            ELSE (LET sent(tx, r) == [err |-> r.err, st |-> r.st, replaced |-> r.replaced,
                                      tx |-> tx, total |-> p.total]
                      signed(tx) == sent(tx, spend(st, host, signer, tx))
                  IN  signed(sign_inputs(
                          Transaction([i \in 1..Len(p.hashes) |->
                                          TransactionInput(p.hashes[i], << >>, Bytes(<< >>))],
                                      << TransactionOutput(value, dest, NoData),
                                         new_pubkey(p.total - value, signer) >>,
                                      Blocks(0)),
                          p.utxos, signer, 1)))
        decoded(d) ==
            IF d.err # "ok"
            THEN [err |-> d.err, st |-> st, replaced |-> 0, tx |-> NoTx, total |-> 0]
            ELSE IF ~(value > 0)
            THEN [err |-> "Value transferred must be larger than zero", st |-> st,
                  replaced |-> 0, tx |-> NoTx, total |-> 0]
            ELSE picked(d.dest, pick_utxo(st, signer, value, order))
    IN  decoded(decode_address(address))

\* a call of send_to_address, the storage being iterated in the order given
SendToAddress(signer, value, address, order) ==
    \E r \in {send_to_address(State, Host, signer, value, address, order)} :
        /\ UtxoStore' = r.st.UtxoStore
        /\ TokenIssuanceTransactions' = r.st.TokenIssuanceTransactions
        /\ NftUniqueDataHash' = r.st.NftUniqueDataHash
        /\ RewardTotal' = r.st.RewardTotal
        /\ replaced' = replaced + r.replaced
        /\ last' = [NoCall EXCEPT
                       !.op = "send_to_address", !.err = r.err,
                       !.tx = IF r.err = "ok" THEN r.tx ELSE NoTx,
                       !.pool = RewardTotal,
                       !.native_in = r.total,
                       !.args = [caller |-> signer, dest |-> address, value |-> value,
                                 data |-> << >>, outpoints |-> order, pp |-> "ok"]]
        /\ spent' = IF r.err = "ok"
                    THEN spent \cup {r.tx.inputs[i].outpoint : i \in 1..Len(r.tx.inputs)}
                    ELSE spent
        /\ tx_count' = IF r.err = "ok" THEN tx_count + 1 ELSE tx_count
        /\ UNCHANGED << issued, minted, block_number, now, genesis_total >>

\* the storage a call leaves behind: what it wrote when it returned; when it
\* panicked, either what it had written by then or, the host discarding the
\* block, what the storage was before the call
PanicOutcomes(before, r) == IF r.err = Panic THEN {before, r.st} ELSE {r.st}

\* Hooks::on_finalize (lines 370-372); the host then starts the next block
Finalize(auths) ==
    /\ \E r \in {disperse_reward(State, auths, block_number)} :
       \E after \in PanicOutcomes(State, r) :
           /\ UtxoStore' = after.UtxoStore
           /\ RewardTotal' = after.RewardTotal
           /\ replaced' = replaced + r.replaced
           /\ last' = [NoCall EXCEPT
                          !.op = "on_finalize", !.err = r.err, !.pool = RewardTotal,
                          !.auths = auths,
                          !.skipped = IF r.st.RewardTotal = RewardTotal /\ r.st.UtxoStore = UtxoStore
                                      THEN 0
                                      ELSE Len(auths) - Cardinality((DOMAIN r.st.UtxoStore)
                                                                     \ DOMAIN UtxoStore)]
           /\ block_number' = IF r.err = "ok" THEN block_number + 1 ELSE block_number
           /\ now' = IF r.err = "ok" THEN now + 1 ELSE now
    /\ UNCHANGED << TokenIssuanceTransactions, NftUniqueDataHash, spent, issued, minted,
                    genesis_total, tx_count >>

\* the transactions offered to spend: every output list over the live
\* outpoints with the right witnesses, and every list of outpoints, witness
\* mode and time lock with one plain output
TxCandidates ==
    {BuildTx(ops, "good", outputs, Blocks(0)) : ops \in LiveLists, outputs \in OutputLists}
    \cup {BuildTx(ops, mode, << OutPlainB1 >>, Blocks(0)) :
              ops \in OutpointLists, mode \in WitnessModes}
    \cup {BuildTx(ops, "good", << OutPlainB1 >>, tl) :
              ops \in OutpointLists, tl \in TimeLocks}
    \cup {BuildTx(ops, mode, << OutPlainB1 >>, Blocks(0)) :
              ops \in LiveLists, mode \in SignatureModes}

\* the lists of outpoints offered to send_conscrit_p2pk and
\* send_conscrit_c2c: one or two of the live CallPP outpoints, of one other
\* live outpoint and of an outpoint that was never made, in both orders
ConscritKeys ==
    LET callable == {k \in DOMAIN UtxoStore : UtxoStore[k].destination.kind = "CallPP"}
        others == (DOMAIN UtxoStore) \ callable
    IN  callable \cup {NeverKey}
        \cup (IF others = {} THEN {} ELSE {CHOOSE k \in others : TRUE})
ConscritLists ==
    {<< a >> : a \in ConscritKeys} \cup {<< a, b >> : a, b \in ConscritKeys}
ConscritValues == {1, 3}

\* A behaviour is explored up to its first rejected call and up to MaxTx
\* accepted transactions and MaxBlock finalized blocks. A read writes
\* nothing, so what follows a read is what follows the state it was made
\* in: a behaviour is explored up to a read as well.
Explored == last.err = "ok" /\ last.op # "nft_read"
NftIds == {"1", "2", "?"}

Spend ==
    /\ Explored
    /\ UNCHANGED << staking_vars, ver >>
    /\ tx_count < MaxTx
    /\ \E caller \in Callers, tx \in TxCandidates :
          \E pp \in PoolResults(tx) : SpendTx(caller, tx, pp)

OnFinalize ==
    /\ Explored
    /\ UNCHANGED << staking_vars, ver >>
    /\ block_number <= MaxBlock
    /\ \E auths \in AuthorityLists : Finalize(auths)

ConscritP2pk ==
    /\ Explored
    /\ UNCHANGED << staking_vars, ver >>
    /\ tx_count < MaxTx
    /\ \E caller \in Accounts, value \in ConscritValues, outpoints \in ConscritLists :
          SendConscritP2pk(caller, "B", value, outpoints)

ConscritC2c ==
    /\ Explored
    /\ UNCHANGED << staking_vars, ver >>
    /\ tx_count < MaxTx
    /\ \E caller \in Accounts, value \in ConscritValues, outpoints \in ConscritLists :
          \E pp \in {"ok", "failure"} :
              SendConscritC2c(caller, "A", value, << >>, outpoints, pp)

\* the orders UtxoStore::iter() may visit the keys in: every order of the
\* outputs of the signer, the other keys making no difference to pick_utxo
IterationOrders(signer) ==
    LET owned == {k \in DOMAIN UtxoStore :
                     /\ UtxoStore[k].destination.kind = "Pubkey"
                     /\ UtxoStore[k].destination.pk = signer}
    IN  {p \in [1..Cardinality(owned) -> owned] :
            \A i, j \in 1..Cardinality(owned) : i # j => p[i] # p[j]}
Addresses == { [bech32 |-> "ok", data |-> Pubkey("B")],
               [bech32 |-> "ok", data |-> NoDestination],
               [bech32 |-> "invalid checksum", data |-> NoDestination] }
SendValues == {0, 1, 6}

SendTo ==
    /\ Explored
    /\ UNCHANGED << staking_vars, ver >>
    /\ tx_count < MaxTx
    /\ \E signer \in Callers, value \in SendValues, address \in Addresses :
          \E order \in IterationOrders(signer) :
              SendToAddress(signer, value, address, order)

Read ==
    /\ Explored
    /\ UNCHANGED << staking_vars, ver >>
    /\ \E nft_id \in NftIds : NftRead(nft_id)

Next == Spend \/ OnFinalize \/ ConscritP2pk \/ ConscritC2c \/ Read \/ SendTo

Spec == Init /\ [][Next]_vars

\* ---------------------------------------------------------------------------
\* Staking (src/pallets/utxo/src/staking.rs)
\* ---------------------------------------------------------------------------
\* T::MinimumStake and T::StakeWithdrawalFee of the runtime configuration
MinimumStake == 2
StakeWithdrawalFee == 1
\* the number of staking calls that succeed in a behaviour
MaxStakeOps == 3

\* Destination::LockForStaking and Destination::LockExtraForStaking
LockForStaking(stash, controller, session_key) ==
    [kind |-> "LockForStaking", stash_account |-> stash,
     controller_account |-> controller, session_key |-> session_key]
LockExtraForStaking(stash, controller) ==
    [kind |-> "LockExtraForStaking", stash_account |-> stash,
     controller_account |-> controller]
\* TXOutputHeader: the header of an output names the token type of its value
TXOutputHeader(token_type) == [token_type |-> token_type]
\* output_header.as_tx_output_header().token_type()
header_token_type(header) == header.token_type
\* BlakeTwo256::hash_of(&outpoints)
hash_of_outpoints(outpoints) == [src |-> "withdraw", outpoints |-> outpoints]

\* the storage the staking functions work on
StakingState == [LockedUtxos |-> LockedUtxos, StakingCount |-> StakingCount,
                 UtxoStore |-> UtxoStore, RewardTotal |-> RewardTotal]

\* utils::is_owned_locked_utxo (lines 162-187): "ok" or the error
is_owned_locked_utxo(utxo, expected_stash_account) ==
    IF utxo.destination.kind \in {"LockForStaking", "LockExtraForStaking"}
    THEN IF utxo.destination.stash_account = expected_stash_account
         THEN "ok" ELSE "hash of stake not owned"
    ELSE "destination not applicable"

\* utils::add_to_locked_utxos (lines 189-218)
add_to_locked_utxos(sst, hash_key, output, stash_account) ==
    LET count == IF stash_account \in DOMAIN sst.StakingCount
                 THEN sst.StakingCount[stash_account] ELSE << 0, 0 >>
    IN  IF count[2] + output.value > ValueMax
        THEN [err |-> "exceeded limit of total utxos locked", st |-> sst]
        ELSE [err |-> "ok",
              st |-> [sst EXCEPT
                         !.StakingCount = MapPut(sst.StakingCount, stash_account,
                                                 << count[1] + 1, count[2] + output.value >>),
                         !.LockedUtxos = MapPut(sst.LockedUtxos, hash_key, output)]]

\* validation::validate_lock_for_staking_requirements (lines 226-250)
validate_lock_for_staking_requirements(sst, hash_key, output_value, output_header, stash_account) ==
    IF header_token_type(output_header) # "MLT"
    THEN "only MLT tokens are supported for staking"
    ELSE IF stash_account \in DOMAIN sst.StakingCount THEN "StashAccountAlreadyRegistered"
    ELSE IF output_value < MinimumStake
    THEN "output value must be equal or more than the set minimum stake"
    ELSE IF hash_key \in DOMAIN sst.LockedUtxos
    THEN "output already exists in the LockedUtxos storage"
    ELSE "ok"

\* validation::validate_lock_extra_for_staking_requirements (lines 252-268)
validate_lock_extra_for_staking_requirements(sst, hash_key, output_value, output_header) ==
    IF header_token_type(output_header) # "MLT"
    THEN "only MLT tokens are supported for staking"
    ELSE IF ~(output_value > 0) THEN "output value must be nonzero"
    ELSE IF hash_key \in DOMAIN sst.LockedUtxos THEN "OutpointAlreadyExists"
    ELSE "ok"

\* lines 292-300: the loop of validate_withdrawal over the outpoints
RECURSIVE check_outpoints(_, _, _, _)
check_outpoints(sst, stash_account, outpoints, i) ==
    IF i > Len(outpoints) THEN "ok"
    ELSE IF outpoints[i] \notin DOMAIN sst.LockedUtxos THEN "OutpointDoesNotExist"
    ELSE IF is_owned_locked_utxo(sst.LockedUtxos[outpoints[i]], stash_account) # "ok"
    THEN is_owned_locked_utxo(sst.LockedUtxos[outpoints[i]], stash_account)
    ELSE check_outpoints(sst, stash_account, outpoints, i + 1)

\* validation::validate_withdrawal (lines 270-313): "ok" or the error
validate_withdrawal(sst, stash_account, outpoints) ==
    IF stash_account \notin DOMAIN sst.StakingCount THEN "StashAccountNotFound"
    ELSE IF sst.StakingCount[stash_account][1] # Len(outpoints)
    THEN "please provide all staked outpoints."
    ELSE check_outpoints(sst, stash_account, outpoints, 1)

\* the map without the keys given
MapRemove(m, keys) == [x \in (DOMAIN m) \ keys |-> m[x]]

\* withdraw (lines 77-110), T::StakingHelper::withdraw answering `helper`
withdraw(sst, stash_account, outpoints, helper) ==
    LET validity == validate_withdrawal(sst, stash_account, outpoints)
    IN  IF validity # "ok" THEN [err |-> validity, st |-> sst]
        ELSE IF helper # "ok" THEN [err |-> helper, st |-> sst]
        ELSE LET total == sst.StakingCount[stash_account][2]
                 taken == [sst EXCEPT !.StakingCount =
                                          MapRemove(sst.StakingCount, {stash_account})]
             IN  IF total < StakeWithdrawalFee
                 THEN [err |-> "Total amount of Locked UTXOs is less than minimum?",
                       st |-> taken]
                 ELSE [err |-> "ok",
                       st |-> [taken EXCEPT
                                  !.LockedUtxos = MapRemove(taken.LockedUtxos, Range(outpoints)),
                                  !.UtxoStore =
                                      MapPut(taken.UtxoStore, hash_of_outpoints(outpoints),
                                             new_pubkey(total - StakeWithdrawalFee,
                                                        stash_account)),
                                  !.RewardTotal = taken.RewardTotal + StakeWithdrawalFee]]

\* lock_for_staking (lines 114-133), T::StakingHelper::lock_for_staking
\* answering `helper`
lock_for_staking(sst, hash_key, output, helper) ==
    IF output.destination.kind # "LockForStaking"
    THEN [err |-> "InvalidOperation", st |-> sst]
    ELSE IF helper # "ok" THEN [err |-> helper, st |-> sst]
    ELSE add_to_locked_utxos(sst, hash_key, output, output.destination.stash_account)

\* locking_extra_utxos (lines 137-156), T::StakingHelper::lock_extra_for_staking
\* answering `helper`
locking_extra_utxos(sst, hash_key, output, helper) ==
    IF output.destination.kind # "LockExtraForStaking"
    THEN [err |-> "InvalidOperation", st |-> sst]
    ELSE IF helper # "ok" THEN [err |-> helper, st |-> sst]
    ELSE IF output.destination.stash_account \notin DOMAIN sst.StakingCount
    THEN [err |-> "StashAccountNotFound", st |-> sst]
    ELSE add_to_locked_utxos(sst, hash_key, output, output.destination.stash_account)

\* a staking call that returned r leaves r.st behind; the variables of the
\* transaction side that staking does not write keep their values
Staked(op, stash, outpoints, r) ==
    /\ LockedUtxos' = r.st.LockedUtxos
    /\ StakingCount' = r.st.StakingCount
    /\ UtxoStore' = r.st.UtxoStore
    /\ RewardTotal' = r.st.RewardTotal
    /\ stk' = [op |-> op, err |-> r.err, stash |-> stash, outpoints |-> outpoints,
               done |-> IF r.err = "ok" THEN stk.done + 1 ELSE stk.done]
    /\ UNCHANGED << main_vars, ver >>

\* validate_lock_for_staking_requirements, then lock_for_staking
LockForStakingCall(hash_key, output, output_header, helper) ==
    \E validity \in {validate_lock_for_staking_requirements(
                         StakingState, hash_key, output.value, output_header,
                         output.destination.stash_account)} :
        Staked("lock_for_staking", output.destination.stash_account, << hash_key >>,
               IF validity # "ok" THEN [err |-> validity, st |-> StakingState]
               ELSE lock_for_staking(StakingState, hash_key, output, helper))

\* validate_lock_extra_for_staking_requirements, then locking_extra_utxos
LockingExtraCall(hash_key, output, output_header, helper) ==
    \E validity \in {validate_lock_extra_for_staking_requirements(
                         StakingState, hash_key, output.value, output_header)} :
        Staked("locking_extra_utxos", output.destination.stash_account, << hash_key >>,
               IF validity # "ok" THEN [err |-> validity, st |-> StakingState]
               ELSE locking_extra_utxos(StakingState, hash_key, output, helper))

WithdrawCall(stash_account, outpoints, helper) ==
    Staked("withdraw", stash_account, outpoints,
           withdraw(StakingState, stash_account, outpoints, helper))

\* the inputs of the staking calls
HashKeys == {"h1", "h2", "h3"}
StakeValues == {1, 3}
HelperResults == {"ok", "StakingHelper error"}
OutputHeaders == {TXOutputHeader("MLT"), TXOutputHeader("BTC")}
LockOutputs ==
    {TransactionOutput(v, LockForStaking(a, a, << >>), NoData) :
        v \in StakeValues, a \in Accounts}
    \cup {TransactionOutput(3, LockExtraForStaking("A", "A"), NoData)}
ExtraOutputs ==
    {TransactionOutput(v, LockExtraForStaking(a, a), NoData) :
        v \in StakeValues \cup {0}, a \in Accounts}
    \cup {TransactionOutput(3, LockForStaking("B", "B", << >>), NoData)}
WithdrawLists ==
    {<< >>} \cup {<< a >> : a \in HashKeys} \cup {<< a, b >> : a, b \in HashKeys}

StakeLock ==
    /\ stk.done < MaxStakeOps
    /\ \E hash_key \in HashKeys, output \in LockOutputs,
          output_header \in OutputHeaders, helper \in HelperResults :
          LockForStakingCall(hash_key, output, output_header, helper)
StakeExtra ==
    /\ stk.done < MaxStakeOps
    /\ \E hash_key \in HashKeys, output \in ExtraOutputs,
          output_header \in OutputHeaders, helper \in HelperResults :
          LockingExtraCall(hash_key, output, output_header, helper)
StakeWithdraw ==
    /\ stk.done < MaxStakeOps
    /\ \E stash_account \in Accounts, outpoints \in WithdrawLists,
          helper \in HelperResults :
          WithdrawCall(stash_account, outpoints, helper)

StakingInit ==
    /\ UtxoStore = EmptyMap
    /\ TokenIssuanceTransactions = EmptyMap
    /\ NftUniqueDataHash = EmptyMap
    /\ RewardTotal = 0
    /\ block_number = 1
    /\ now = 2
    /\ last = NoCall
    /\ spent = {}
    /\ issued = [t \in TokenIds |-> 0]
    /\ minted = [h \in DataHashes |-> 0]
    /\ replaced = 0
    /\ genesis_total = 0
    /\ tx_count = 0
    /\ LockedUtxos = EmptyMap
    /\ StakingCount = EmptyMap
    /\ stk = NoStake
    /\ ver = NoVerifier

StakingNext == StakeLock \/ StakeExtra \/ StakeWithdraw

StakingSpec == StakingInit /\ [][StakingNext]_vars

\* ---------------------------------------------------------------------------
\* TransactionVerifier (src/pallets/utxo/src/verifier.rs)
\* ---------------------------------------------------------------------------
\* TokenId::mlt(): the id of the native coin, no id of a token issued
TokenId_mlt == 0
\* OutputData::id: the token an output data names, none for a burn
OutputData_id(data) ==
    IF data.type \in {"TokenTransferV1", "TokenIssuanceV1", "NftMintV1"}
    THEN Some(data.token_id) ELSE None

\* get_token_id_from_input (lines 159-169)
get_token_id_from_input(store, hash) ==
    IF hash \in DOMAIN store
    THEN IF store[hash].data # NoData
         THEN IF OutputData_id(store[hash].data).some
              THEN [err |-> "ok", id |-> OutputData_id(store[hash].data).value]
              ELSE [err |-> "Token had burned or input incorrect", id |-> TokenId_mlt]
         ELSE [err |-> "ok", id |-> TokenId_mlt]
    ELSE [err |-> "ok", id |-> TokenId_mlt]

\* get_token_id_from_output (lines 171-179); unreachable!() panics
get_token_id_from_output(output) ==
    IF output.data = NoData THEN [err |-> "ok", id |-> TokenId_mlt]
    ELSE IF output.data.type = "TokenBurnV1" THEN [err |-> "Panic", id |-> TokenId_mlt]
    ELSE [err |-> "ok", id |-> output.data.token_id]

\* get_output_by_outpoint (lines 181-183)
get_output_by_outpoint(store, hash) ==
    IF hash \in DOMAIN store THEN Some(store[hash]) ELSE None

\* init_inputs (lines 18-34): the inputs that resolve, collected into a map
\* keyed by token id; an entry collected later replaces one with its key
RECURSIVE init_inputs_from(_, _, _, _)
init_inputs_from(store, inputs, i, input_map) ==
    IF i > Len(inputs) THEN input_map
    ELSE IF get_token_id_from_input(store, inputs[i].outpoint).err # "ok"
            \/ ~get_output_by_outpoint(store, inputs[i].outpoint).some
    THEN init_inputs_from(store, inputs, i + 1, input_map)
    ELSE init_inputs_from(store, inputs, i + 1,
             MapPut(input_map, get_token_id_from_input(store, inputs[i].outpoint).id,
                    << inputs[i], get_output_by_outpoint(store, inputs[i].outpoint).value >>))
init_inputs(store, tx) == init_inputs_from(store, tx.inputs, 1, EmptyMap)

\* init_outputs (lines 36-48): the outputs collected into a map keyed by
\* token id
RECURSIVE init_outputs_from(_, _, _)
init_outputs_from(outputs, i, output_map) ==
    IF i > Len(outputs) THEN [err |-> "ok", map |-> output_map]
    ELSE IF get_token_id_from_output(outputs[i]).err # "ok"
    THEN [err |-> get_token_id_from_output(outputs[i]).err, map |-> output_map]
    ELSE init_outputs_from(outputs, i + 1,
             MapPut(output_map, get_token_id_from_output(outputs[i]).id, outputs[i]))
init_outputs(tx) == init_outputs_from(tx.outputs, 1, EmptyMap)

\* the amount an entry of a map adds under its token id (lines 56-91, 103-137)
entry_amount(utxo) ==
    IF utxo.data = NoData THEN utxo.value
    ELSE IF utxo.data.type = "TokenIssuanceV1" THEN utxo.data.amount_to_issue
    ELSE IF utxo.data.type = "TokenTransferV1" THEN utxo.data.amount
    ELSE IF utxo.data.type = "NftMintV1" THEN 1
    ELSE 0

\* init_total_value_of_input_tokens (lines 50-95): a key of the map is the
\* token id of its entry, so every total is the amount of one entry
init_total_value_of_input_tokens(all_inputs_map) ==
    [id \in (DOMAIN all_inputs_map) \cup {TokenId_mlt} |->
        IF id \in DOMAIN all_inputs_map THEN entry_amount(all_inputs_map[id][2]) ELSE 0]

\* init_total_value_of_output_tokens (lines 97-141)
init_total_value_of_output_tokens(all_outputs_map) ==
    [id \in (DOMAIN all_outputs_map) \cup {TokenId_mlt} |->
        IF id \in DOMAIN all_outputs_map THEN entry_amount(all_outputs_map[id]) ELSE 0]

\* TransactionVerifier::new (lines 143-157)
TransactionVerifier_new(store, tx) ==
    IF init_outputs(tx).err # "ok"
    THEN [err |-> init_outputs(tx).err, tx |-> tx]
    ELSE [err |-> "ok", tx |-> tx,
          all_inputs_map |-> init_inputs(store, tx),
          all_outputs_map |-> init_outputs(tx).map,
          total_value_of_input_tokens |->
              init_total_value_of_input_tokens(init_inputs(store, tx)),
          total_value_of_output_tokens |->
              init_total_value_of_output_tokens(init_outputs(tx).map)]

\* checking_inputs (lines 185-208): "ok" or the error
checking_inputs(self) ==
    IF Len(self.tx.inputs) = 0 THEN "no inputs"
    ELSE IF Cardinality(DOMAIN self.all_inputs_map) # Len(self.tx.inputs)
    THEN "each input should be used only once"
    ELSE "ok"

\* checking_outputs (lines 210-230): "ok" or the error
checking_outputs(self) ==
    IF Len(self.tx.outputs) = 0 THEN "no outputs"
    ELSE IF Cardinality(DOMAIN self.all_outputs_map) # Len(self.tx.outputs)
    THEN "each output should be used once"
    ELSE "ok"

\* the utxo set the verifier reads
VerifierStore ==
    [k \in {"u1", "u2", "u3", "u4", "u5"} |->
        CASE k = "u1" -> new_pubkey(1, "A")
          [] k = "u2" -> new_pubkey(3, "B")
          [] k = "u3" -> TransactionOutput(1, Pubkey("A"), TokenTransferV1(1, 2))
          [] k = "u4" -> TransactionOutput(1, Pubkey("A"), TokenTransferV1(2, 1))
          [] k = "u5" -> TransactionOutput(1, Pubkey("A"), TokenBurnV1(1, 1))]
VerifierOutpoints == {"u0", "u1", "u2", "u3", "u4", "u5"}
VerifierOutputs ==
    {new_pubkey(1, "A"), new_pubkey(1, "B"), new_pubkey(2, "A"),
     TransactionOutput(1, Pubkey("A"), TokenTransferV1(1, 1)),
     TransactionOutput(1, Pubkey("B"), TokenTransferV1(1, 1)),
     TransactionOutput(1, Pubkey("A"), TokenBurnV1(1, 1))}
\* the longest list of inputs and of outputs of a transaction verified
MaxVerified == 2
ListsUpTo(S, n) == UNION {[1..m -> S] : m \in 0..n}
VerifierTxs ==
    {Transaction([i \in DOMAIN ops |-> TransactionInput(ops[i], << >>, Bytes(<< >>))],
                 outs, Blocks(0)) :
        ops \in ListsUpTo(VerifierOutpoints, MaxVerified),
        outs \in ListsUpTo(VerifierOutputs, MaxVerified)}

\* TransactionVerifier::new(tx), then checking_inputs
CheckingInputs ==
    /\ ver.inputs = "pending"
    /\ \E self \in {TransactionVerifier_new(UtxoStore, ver.tx)} :
          ver' = [ver EXCEPT !.inputs = IF self.err # "ok" THEN self.err
                                       ELSE checking_inputs(self)]
    /\ UNCHANGED << UtxoStore, RewardTotal, main_vars, staking_vars >>

\* TransactionVerifier::new(tx), then checking_outputs
CheckingOutputs ==
    /\ ver.outputs = "pending"
    /\ \E self \in {TransactionVerifier_new(UtxoStore, ver.tx)} :
          ver' = [ver EXCEPT !.outputs = IF self.err # "ok" THEN self.err
                                        ELSE checking_outputs(self)]
    /\ UNCHANGED << UtxoStore, RewardTotal, main_vars, staking_vars >>

VerifierInit ==
    /\ UtxoStore = VerifierStore
    /\ TokenIssuanceTransactions = EmptyMap
    /\ NftUniqueDataHash = EmptyMap
    /\ RewardTotal = 0
    /\ block_number = 1
    /\ now = 2
    /\ last = NoCall
    /\ spent = {}
    /\ issued = [t \in TokenIds |-> 0]
    /\ minted = [h \in DataHashes |-> 0]
    /\ replaced = 0
    /\ genesis_total = 0
    /\ tx_count = 0
    /\ LockedUtxos = EmptyMap
    /\ StakingCount = EmptyMap
    /\ stk = NoStake
    /\ \E tx \in VerifierTxs :
          ver = [tx |-> tx, inputs |-> "pending", outputs |-> "pending"]

VerifierNext == CheckingInputs \/ CheckingOutputs

VerifierSpec == VerifierInit /\ [][VerifierNext]_vars

\* ---------------------------------------------------------------------------
\* Properties
\* ---------------------------------------------------------------------------
Accepted == last.op = "spend" /\ last.err = "ok"
Rejected == last.op = "spend" /\ last.err # "ok"
Finalized == last.op = "on_finalize" /\ last.err = "ok"

LiveValues == SumSeq(LET keys == DOMAIN UtxoStore
                         RECURSIVE AsSeq(_)
                         AsSeq(S) == IF S = {} THEN << >>
                                     ELSE LET k == CHOOSE x \in S : TRUE
                                          IN  << UtxoStore[k].value >> \o AsSeq(S \ {k})
                     IN  AsSeq(keys))

\* C1: the values of the live outputs and RewardTotal add up to the values of
\* the genesis outputs, in every reachable state.
C1_CoinConserved == LiveValues + RewardTotal = genesis_total

\* C2: an accepted spend adds native_in - native_out to RewardTotal, whatever
\* that difference is.
C2_RewardIsDifference ==
    Accepted => RewardTotal = last.pool + (last.native_in - last.native_out)

\* C3: an outpoint that an accepted transaction listed as an input is not in
\* the store, and a later transaction listing it is rejected.
C3_SpentOnce ==
    /\ spent \cap DOMAIN UtxoStore = {}
    /\ (last.op = "spend" /\ last.respend) => last.err # "ok"
\* a transaction naming a spent outpoint was submitted and rejected
C3_Witness ==
    /\ Rejected /\ last.respend
    /\ spent # {}

\* C4: no insertion into the store, by spend or by on_finalize, replaces a
\* live output.
C4_NoReplacement == replaced = 0
\* a dispersal met a reward key that was taken and left it alone, after a
\* transaction was applied
C4_Witness ==
    /\ Finalized /\ last.skipped > 0
    /\ tx_count > 0
    /\ \E k \in DOMAIN UtxoStore : k.src = "reward"

\* C5: for every token id at most one TokenIssuanceV1 output is ever accepted.
C5_IssuedOnce == \A t \in TokenIds : issued[t] <= 1

\* C6: for every data hash at most one NftMintV1 output is ever accepted.
C6_MintedOnce == \A h \in DataHashes : minted[h] <= 1

NoIssueBurnMint(tx) ==
    \A k \in 1..Len(tx.outputs) :
        tx.outputs[k].data.type \notin {"TokenIssuanceV1", "TokenBurnV1", "NftMintV1"}

\* C7 as stated: an accepted transaction without issuance, burn and mint
\* outputs carries, of every token, the same amount in and out.
C7_TokensEqual ==
    (Accepted /\ NoIssueBurnMint(last.tx)) =>
        \A t \in TokenIds : last.token_in[t] = last.token_out[t]
\* C7 as amended: an accepted transaction without issuance, burn and mint
\* outputs carries, of every token, at least as much in as out.
C7_TokensNotCreated ==
    (Accepted /\ NoIssueBurnMint(last.tx)) =>
        \A t \in TokenIds : last.token_in[t] >= last.token_out[t]
\* a transfer of tokens was accepted
C7_Witness ==
    /\ Accepted /\ NoIssueBurnMint(last.tx)
    /\ \E t \in TokenIds : last.token_out[t] > 0

CreatedIn(tx, t) ==
    \E k \in 1..Len(tx.outputs) :
        /\ tx.outputs[k].data.type \in {"TokenIssuanceV1", "NftMintV1"}
        /\ tx.outputs[k].data.token_id = t

\* C8: of every token among the outputs of an accepted transaction, the
\* spent UTXOs carry at least the amount of the outputs, or the transaction
\* creates the token.
C8_SuppliedOrCreated ==
    Accepted =>
        \A t \in TokenIds :
            last.token_out[t] > 0 =>
                last.token_in[t] >= last.token_out[t] \/ CreatedIn(last.tx, t)
\* both cases were accepted: a token the inputs supply, and a token of which
\* the outputs carry more than the inputs because the transaction creates it
C8_Witness ==
    /\ Accepted
    /\ \E t \in TokenIds :
          /\ last.token_out[t] > last.token_in[t]
          /\ CreatedIn(last.tx, t)
          /\ \E k \in 1..Len(last.tx.outputs) :
                last.tx.outputs[k].data.type = "TokenTransferV1"

\* C9: a spend that returns an error leaves the store, the indexes and
\* RewardTotal as they were.
C9_RejectionIsAtomic ==
    [][(last'.op = "spend" /\ last'.err # "ok") =>
          UNCHANGED << UtxoStore, TokenIssuanceTransactions, NftUniqueDataHash,
                       RewardTotal >>]_vars
\* a spend was rejected because RewardTotal would overflow
C9_Witness == Rejected /\ last.err = "Reward overflow"

\* C10: validate_transaction, given a transaction that breaks no rule and
\* names outpoints absent from the store, returns a certificate whose
\* `requires` lists those outpoints.
C10_ConditionalCertificate ==
    (last.op = "spend" /\ last.plain /\ Len(last.missing) > 0) =>
        (last.validity.err = "ok" /\ last.validity.requires = last.missing)

\* the transaction with the witness of every input replaced by w
with_witness(tx, w) ==
    [tx EXCEPT !.inputs = [j \in 1..Len(tx.inputs) |-> [tx.inputs[j] EXCEPT !.witness = w]]]

\* C11: the key of every output of an accepted transaction is the key the
\* same transaction has when only the witnesses of its inputs are changed.
C11_OutpointIgnoresWitness ==
    Accepted =>
        \A k \in 1..Len(last.tx.outputs) :
            outpoint(with_witness(last.tx, Bytes(<< >>)), k - 1) = outpoint(last.tx, k - 1)

\* C12: a transaction is rejected while the clock of its time lock (the
\* block height, or the timestamp) is before the lock; from the lock on the
\* lock rejects it no more, and spend returns what it returns with the clock
\* exactly at the lock.
C12_TimeLock ==
    last.op = "spend" =>
        /\ ~last.reached => last.err # "ok"
        /\ last.reached => /\ last.err # "Time lock restrictions not satisfied"
                           /\ last.err = last.at_lock
\* a transaction with a lock in the future of genesis was accepted when the
\* clock came to the lock
C12_Witness ==
    /\ Accepted
    /\ last.tx.time_lock.at > 0
    /\ last.reached /\ last.at_lock = "ok"

\* C13: after a dispersal that completed, RewardTotal is less than the
\* number of authorities and not negative.
C13_RewardClosure ==
    Finalized => (0 <= RewardTotal /\ RewardTotal < Len(last.auths))
\* a pool that does not divide evenly was dispersed among two authorities
C13_Witness ==
    /\ Finalized
    /\ Len(last.auths) = 2
    /\ last.pool >= 2
    /\ RewardTotal = 1

\* C14: on_finalize with no authorities returns normally and leaves
\* RewardTotal and the store as they were.
C14_NoAuthoritiesIsNoOp ==
    [][(last'.op = "on_finalize" /\ Len(last'.auths) = 0) =>
          (last'.err = "ok" /\ UNCHANGED << UtxoStore, RewardTotal >>)]_vars

\* C15: on_finalize with one authority or more and a pool smaller than their
\* number leaves RewardTotal and the store as they were.
C15_SmallPoolIsKept ==
    [][(last'.op = "on_finalize" /\ Len(last'.auths) >= 1
                                 /\ RewardTotal < Len(last'.auths)) =>
          (last'.err = "ok" /\ UNCHANGED << UtxoStore, RewardTotal >>)]_vars
\* a pool that is not empty was too small for the authorities
C15_Witness ==
    /\ Finalized
    /\ Len(last.auths) >= 1
    /\ 0 < last.pool /\ last.pool < Len(last.auths)

\* the keys of the reward outputs of a dispersal of pool among auths
RewardKeys(pool, auths, block) ==
    {reward_key(new_pubkey(pool \div Len(auths), auths[i]), block) : i \in 1..Len(auths)}

\* C16: on_finalize with n >= 1 authorities and a pool of n or more sets
\* RewardTotal to pool mod n; after it the store holds, for every authority,
\* the plain output of pool div n to the authority at the key of that output
\* and the block number; the entries the store had are as they were, and
\* nothing else is added.
C16_Dispersal ==
    [][(last'.op = "on_finalize" /\ Len(last'.auths) >= 1
                                 /\ RewardTotal >= Len(last'.auths)) =>
          /\ last'.err = "ok"
          /\ RewardTotal' = RewardTotal % Len(last'.auths)
          /\ \A k \in RewardKeys(RewardTotal, last'.auths, block_number) :
                k \in DOMAIN UtxoStore' /\ UtxoStore'[k] = k.output
          /\ \A k \in DOMAIN UtxoStore :
                k \in DOMAIN UtxoStore' /\ UtxoStore'[k] = UtxoStore[k]
          /\ DOMAIN UtxoStore' =
                (DOMAIN UtxoStore) \cup RewardKeys(RewardTotal, last'.auths, block_number)
       ]_vars
\* a pool was dispersed among two authorities, one output was inserted and
\* the key of the other was taken
C16_Witness ==
    /\ Finalized
    /\ Len(last.auths) = 2
    /\ last.pool >= 2
    /\ last.skipped = 1
    /\ RewardTotal = last.pool % 2

\* C17: a transaction in which two inputs name the same outpoint is rejected
\* by validate_transaction and by spend, whatever the locks and witnesses,
\* and the storage is as it was.
C17_DuplicateInputRejected ==
    [][(last'.op = "spend" /\ last'.duplicate) =>
          /\ last'.validity.err # "ok"
          /\ last'.err # "ok"
          /\ UNCHANGED << UtxoStore, TokenIssuanceTransactions, NftUniqueDataHash,
                          RewardTotal >>]_vars
\* a transaction naming a live outpoint twice was rejected for it
C17_Witness ==
    /\ Rejected /\ last.duplicate
    /\ last.missing = << >>
    /\ last.err = "each input should be used only once"

\* C18: every input of an accepted transaction carries the lock its UTXO
\* commits to: a lock whose hash is h for a ScriptHash(h) destination, the
\* empty lock for every other destination.
C18_LocksMatch ==
    [][(last'.op = "spend" /\ last'.err = "ok") =>
          \A i \in 1..Len(last'.tx.inputs) :
              LET input == last'.tx.inputs[i]
                  dest == UtxoStore[input.outpoint].destination
              IN  IF dest.kind = "ScriptHash"
                  THEN BlakeTwo256(input.lock) = dest.hash
                  ELSE input.lock = << >> /\ BlakeTwo256(input.lock) = EMPTY]_vars
\* a transaction spending a ScriptHash output with its lock, and another
\* output with the empty lock, was accepted
C18_Witness ==
    /\ Accepted
    /\ \E i, j \in 1..Len(last.tx.inputs) :
          last.tx.inputs[i].lock # << >> /\ last.tx.inputs[j].lock = << >>

\* the number of TokenIssuanceV1 and NftMintV1 outputs of a transaction
Creations(tx) ==
    Cardinality({k \in 1..Len(tx.outputs) :
                    tx.outputs[k].data.type \in {"TokenIssuanceV1", "NftMintV1"}})

\* C19: the native coin of the inputs of an accepted transaction is at least
\* the creation fee for every TokenIssuanceV1 and NftMintV1 output it has.
C19_CreationFeeFloor ==
    Accepted => last.native_in >= Creations(last.tx) * CreationFee

\* C20: an accepted transaction gives up at least the creation fee for every
\* TokenIssuanceV1 and NftMintV1 output it has: native_in - native_out is at
\* least that many fees.
C20_CreationFeeBurned ==
    Accepted => last.native_in - last.native_out >= Creations(last.tx) * CreationFee

\* the token id the data of an output names, 0 when it names none
TokenIdOf(output) == IF output.data.type = "None" THEN 0 ELSE output.data.token_id

\* C21: a transaction with an output that names a token id of the issuance
\* index while no UTXO it spends names that token id is not accepted.
C21_OrphanRejected ==
    [][(last'.op = "spend" /\ last'.err = "ok") =>
          \A k \in 1..Len(last'.tx.outputs) :
              TokenIdOf(last'.tx.outputs[k]) \in DOMAIN TokenIssuanceTransactions =>
                  \E i \in 1..Len(last'.tx.inputs) :
                      TokenIdOf(UtxoStore[last'.tx.inputs[i].outpoint]) =
                          TokenIdOf(last'.tx.outputs[k])]_vars

\* C22: spend never aborts, and it accepts a transaction spending a CallPP
\* output only when bytes 1 and 2 of the witness of that input, read
\* little-endian, are 0x1337 and the witness ends there.
C22_OpSpendOrError ==
    [][last'.op = "spend" =>
          /\ last'.err # Panic
          /\ last'.err = "ok" =>
                \A i \in 1..Len(last'.tx.inputs) :
                    LET input == last'.tx.inputs[i]
                    IN  UtxoStore[input.outpoint].destination.kind = "CallPP" =>
                            /\ input.witness.kind = "bytes"
                            /\ Len(input.witness.bytes) = 3
                            /\ input.witness.bytes[2] + 256 * input.witness.bytes[3] = 4919
       ]_vars

\* C23: every input of an accepted transaction that spends a Pubkey(pk)
\* output carries a signature of pk over the message of this transaction
\* (witnesses emptied), the list of all the UTXOs it spends and the index of
\* the input.
C23_SignatureBinds ==
    [][(last'.op = "spend" /\ last'.err = "ok") =>
          LET tx == last'.tx
              utxos == [j \in 1..Len(tx.inputs) |-> UtxoStore[tx.inputs[j].outpoint]]
          IN  \A i \in 1..Len(tx.inputs) :
                  utxos[i].destination.kind = "Pubkey" =>
                      /\ tx.inputs[i].witness.kind = "sig"
                      /\ tx.inputs[i].witness.signer = utxos[i].destination.pk
                      /\ tx.inputs[i].witness.msg =
                             [tx |-> with_witness(tx, Bytes(<< >>)),
                              utxos |-> utxos, index |-> i - 1]]_vars
\* a transaction spending the outputs of two keys, each input signed by its
\* key, was accepted
C23_Witness ==
    /\ Accepted
    /\ Len(last.tx.inputs) = 2
    /\ \A i \in 1..2 : last.tx.inputs[i].witness.kind = "sig"
    /\ last.tx.inputs[1].witness.signer # last.tx.inputs[2].witness.signer

\* C24: after an accepted transaction every TokenIssuanceV1 output is the
\* entry of its token id in the issuance index, and every NftMintV1 output
\* is the entry of its data hash in the NFT index and of its token id in the
\* issuance index, whatever the destination of the output.
C24_CreationsIndexed ==
    Accepted =>
        \A k \in 1..Len(last.tx.outputs) :
            LET d == last.tx.outputs[k].data
                h == outpoint(last.tx, k - 1)
            IN  /\ d.type \in {"TokenIssuanceV1", "NftMintV1"} =>
                       /\ d.token_id \in DOMAIN TokenIssuanceTransactions
                       /\ TokenIssuanceTransactions[d.token_id] = h
                /\ d.type = "NftMintV1" =>
                       /\ d.data_hash \in DOMAIN NftUniqueDataHash
                       /\ NftUniqueDataHash[d.data_hash] = h

\* C25: a key of the issuance index or of the NFT index stays in the index
\* in every later state.
C25_IndexDurable ==
    [][/\ DOMAIN TokenIssuanceTransactions \subseteq DOMAIN TokenIssuanceTransactions'
       /\ DOMAIN NftUniqueDataHash \subseteq DOMAIN NftUniqueDataHash']_vars
\* the output that carried an issuance was spent and its token id is in the
\* index
C25_Witness ==
    \E t \in DOMAIN TokenIssuanceTransactions :
        /\ TokenIssuanceTransactions[t] \notin DOMAIN UtxoStore
        /\ TokenIssuanceTransactions[t] \in spent

\* C26: when the contract engine fails on a CreatePP or CallPP output of a
\* transaction that validate_transaction accepted, spend succeeds (unless
\* RewardTotal overflows): the inputs are gone from the store, every output
\* is in the store at its outpoint, and RewardTotal has grown by the reward.
C26_EngineFailureIgnored ==
    (last.op = "spend" /\ last.engine_failed /\ last.validity.err = "ok"
                       /\ last.validity.requires = << >>) =>
        /\ last.err \in {"ok", "Reward overflow"}
        /\ last.err = "ok" =>
              /\ \A i \in 1..Len(last.tx.inputs) :
                    last.tx.inputs[i].outpoint \notin DOMAIN UtxoStore
              /\ \A k \in 1..Len(last.tx.outputs) :
                    /\ outpoint(last.tx, k - 1) \in DOMAIN UtxoStore
                    /\ UtxoStore[outpoint(last.tx, k - 1)] = last.tx.outputs[k]
              /\ RewardTotal =
                    last.pool + ((last.native_in - last.native_out) % PriorityMod)
\* a transaction with a CallPP output was applied while the engine failed
C26_Witness ==
    /\ Accepted /\ last.engine_failed
    /\ \E k \in 1..Len(last.tx.outputs) : last.tx.outputs[k].destination.kind = "CallPP"

\* C27: a transaction that spends the issuance output of a token and whose
\* outputs are transfers of the token adding up to the amount issued is
\* accepted, and the entry of the token in the issuance index is the
\* outpoint of the issuance before and after it.
C27_IssueThenTransfer ==
    [][(last'.op = "spend" /\ last'.issue_transfer) =>
          /\ last'.err = "ok"
          /\ LET o == last'.tx.inputs[1].outpoint
                 t == UtxoStore[o].data.token_id
             IN  /\ t \in DOMAIN TokenIssuanceTransactions
                 /\ TokenIssuanceTransactions[t] = o
                 /\ TokenIssuanceTransactions'[t] = o
                 /\ \A x \in TokenIds : last'.token_in[x] = last'.token_out[x]]_vars
\* the amount issued was transferred to two owners
C27_Witness ==
    /\ Accepted /\ last.issue_transfer
    /\ Len(last.tx.outputs) = 2
    /\ tx_count = 2

\* C28: no live UTXO has a zero in its active variant: an output without
\* data has a value above 0, a TokenIssuanceV1 output issues more than 0,
\* a TokenTransferV1 output transfers more than 0 and a TokenBurnV1 output
\* burns more than 0.
C28_NoZeroOutput ==
    \A o \in DOMAIN UtxoStore :
        LET u == UtxoStore[o]
        IN  /\ u.data.type = "None" => u.value > 0
            /\ u.data.type = "TokenIssuanceV1" => u.data.amount_to_issue > 0
            /\ u.data.type = "TokenTransferV1" => u.data.amount > 0
            /\ u.data.type = "TokenBurnV1" => u.data.amount_to_burn > 0
\* a reward output and an output of an accepted transaction whose value is
\* 0 and whose token amount is not are live together
C28_Witness ==
    /\ \E o \in DOMAIN UtxoStore : o.src = "reward"
    /\ \E o \in DOMAIN UtxoStore :
           /\ o.src = "tx"
           /\ UtxoStore[o].value = 0
           /\ UtxoStore[o].data.type \in {"TokenIssuanceV1", "TokenTransferV1"}

\* C29: a transaction that breaks several rules is rejected for the one
\* that comes first in the order of the rules: one that passes the
\* structural, temporal, input and accounting rules and whose outputs hold
\* more native coin than its inputs is rejected for that, whatever later
\* rule (orphan token outputs, creation fee, collision, unlocking) it also
\* breaks.
C29_RejectionOrder ==
    (last.op = "spend" /\ last.conservation_first) =>
        last.validity.err = "output value must not exceed input value"

\* the orderings of a list
Orderings(q) ==
    {p \in [1..Len(q) -> Range(q)] :
        \A x \in Range(q) : Cardinality({i \in 1..Len(q) : p[i] = x})
                                = Cardinality({i \in 1..Len(q) : q[i] = x})}
\* what the call recorded in `made` returns in the storage st for the
\* outpoints in the order p
ConscritResult(st, host, made, p) ==
    IF made.op = "send_conscrit_p2pk"
    THEN send_conscrit_p2pk(st, host, made.args.caller, made.args.dest, made.args.value, p)
    ELSE send_conscrit_c2c(st, [host EXCEPT !.ProgrammablePool = made.args.pp],
                           made.args.caller,
                           made.args.dest, made.args.value, made.args.data, p)

\* C30: send_conscrit_p2pk and send_conscrit_c2c build their inputs in the
\* ascending order of the outpoints: for every ordering of the list of
\* outpoints the transaction built, the keys of its outputs, the result and
\* the storage left behind are those of the call made.
C30_OrderIrrelevant ==
    [][last'.op \in {"send_conscrit_p2pk", "send_conscrit_c2c"} =>
          \A p \in Orderings(last'.args.outpoints) :
              \E r \in {ConscritResult(State, Host, last', p)} :
                  /\ r.err = last'.err
                  /\ r.err = "ok" => r.tx = last'.tx
                  /\ r.err = "ok" =>
                         {outpoint(r.tx, k - 1) : k \in 1..Len(r.tx.outputs)}
                             = {outpoint(last'.tx, k - 1) : k \in 1..Len(last'.tx.outputs)}
                  /\ r.err = "ok" =>
                         \A i, j \in 1..Len(r.tx.inputs) :
                             i < j => sort(<< r.tx.inputs[j].outpoint, r.tx.inputs[i].outpoint >>)
                                        = << r.tx.inputs[i].outpoint, r.tx.inputs[j].outpoint >>
                  /\ r.st.UtxoStore = UtxoStore'
                  /\ r.st.RewardTotal = RewardTotal'
                  /\ r.st.TokenIssuanceTransactions = TokenIssuanceTransactions'
                  /\ r.st.NftUniqueDataHash = NftUniqueDataHash']_vars
\* a call that was given two CallPP outpoints in descending order was
\* accepted
C30_Witness ==
    /\ last.op \in {"send_conscrit_p2pk", "send_conscrit_c2c"}
    /\ last.err = "ok"
    /\ Len(last.tx.inputs) = 2
    /\ last.args.outpoints = << last.tx.inputs[2].outpoint, last.tx.inputs[1].outpoint >>

\* C31: nft_read writes nothing and answers with the metadata uri and the
\* data hash of the output the issuance index names for the id exactly when
\* that output is live and is an NftMintV1; it answers None for an id that
\* is not indexed, for one whose indexed output is a token issuance, and
\* once the indexed output was spent.
C31_NftRead ==
    [][last'.op = "nft_read" =>
          /\ UNCHANGED << UtxoStore, TokenIssuanceTransactions, NftUniqueDataHash,
                          RewardTotal >>
          /\ \E id \in {TokenId_from_string(last'.read.nft_id)} :
                 LET minted_live ==
                         /\ id.some
                         /\ id.value \in DOMAIN TokenIssuanceTransactions
                         /\ TokenIssuanceTransactions[id.value] \in DOMAIN UtxoStore
                         /\ UtxoStore[TokenIssuanceTransactions[id.value]].data.type
                                = "NftMintV1"
                 IN  IF minted_live
                     THEN LET data == UtxoStore[TokenIssuanceTransactions[id.value]].data
                          IN  last'.read.result
                                  = Some(<< data.metadata_uri, encode(data.data_hash) >>)
                     ELSE last'.read.result = None]_vars
\* reads that answered
C31_WitnessSome == last.op = "nft_read" /\ last.read.result.some
\* a read of an id whose indexed output is a token issuance
C31_WitnessFungible ==
    /\ last.op = "nft_read" /\ last.read.nft_id = "1"
    /\ 1 \in DOMAIN TokenIssuanceTransactions
    /\ TokenIssuanceTransactions[1] \in DOMAIN UtxoStore
    /\ UtxoStore[TokenIssuanceTransactions[1]].data.type = "TokenIssuanceV1"
\* a read of an id whose indexed mint output was spent
C31_Witness ==
    /\ last.op = "nft_read" /\ last.read.nft_id = "2"
    /\ 2 \in DOMAIN TokenIssuanceTransactions
    /\ TokenIssuanceTransactions[2] \in spent
    /\ ~last.read.result.some

\* the outputs of the accepted transactions: the live ones and the spent ones
AcceptedOutputs ==
    {k \in (DOMAIN UtxoStore) \cup spent : k.src = "tx"}
\* the amounts the accepted TokenIssuanceV1 outputs of token t issued
IssuedAmounts(t) ==
    {k.tx.outputs[k.index + 1].data.amount_to_issue :
        k \in {a \in AcceptedOutputs :
                  /\ a.tx.outputs[a.index + 1].data.type = "TokenIssuanceV1"
                  /\ a.tx.outputs[a.index + 1].data.token_id = t}}
\* the amount of token t the live UTXOs carry
LiveSupply(t) ==
    LET RECURSIVE total(_)
        total(S) == IF S = {} THEN 0
                    ELSE LET k == CHOOSE x \in S : TRUE
                         IN  (CASE UtxoStore[k].data.type = "TokenIssuanceV1" ->
                                       UtxoStore[k].data.amount_to_issue
                                [] UtxoStore[k].data.type = "TokenTransferV1" ->
                                       UtxoStore[k].data.amount
                                [] OTHER -> 0)
                             + total(S \ {k})
    IN  total({k \in DOMAIN UtxoStore :
                  /\ UtxoStore[k].data.type \in {"TokenIssuanceV1", "TokenTransferV1"}
                  /\ UtxoStore[k].data.token_id = t})

\* C32: the live UTXOs carry of a token at most the amount an accepted
\* TokenIssuanceV1 output issued of it.
C32_SupplyBounded ==
    \A t \in TokenIds : \A amount \in IssuedAmounts(t) : LiveSupply(t) <= amount

\* the amount of token t the TokenBurnV1 outputs of a transaction burn
BurnSum(tx, t) ==
    SumSeq([k \in 1..Len(tx.outputs) |->
               IF tx.outputs[k].data.type = "TokenBurnV1" /\ tx.outputs[k].data.token_id = t
               THEN tx.outputs[k].data.amount_to_burn ELSE 0])

\* C33: an accepted transaction with a TokenBurnV1 output of a token spends
\* inputs that carry at least the amount burnt on top of the amount its
\* other outputs of the token take.
C33_BurnSupplied ==
    Accepted =>
        \A t \in TokenIds :
            BurnSum(last.tx, t) > 0 =>
                last.token_in[t] >= last.token_out[t] + BurnSum(last.tx, t)

\* the values of the outputs a store holds at the keys given
RECURSIVE ValuesAt(_, _)
ValuesAt(store, keys) ==
    IF keys = {} THEN 0
    ELSE LET k == CHOOSE x \in keys : TRUE
         IN  store[k].value + ValuesAt(store, keys \ {k})

\* C34: on_finalize conserves the native coin for every list of
\* authorities: RewardTotal before the call is RewardTotal after it plus
\* the values of the outputs the call added to the store.
C34_DispersalConserves ==
    [][(last'.op = "on_finalize" /\ last'.err = "ok") =>
          RewardTotal = RewardTotal'
                          + ValuesAt(UtxoStore', (DOMAIN UtxoStore') \ DOMAIN UtxoStore)]_vars

\* C35: an output with the destination CallPP(account, ...) is consumed
\* only on behalf of that account: a call of send_conscrit_p2pk or
\* send_conscrit_c2c that is accepted spends CallPP outputs of its caller
\* only.
C35_OnlyAccountSpends ==
    [][(last'.op \in {"send_conscrit_p2pk", "send_conscrit_c2c"} /\ last'.err = "ok") =>
          \A i \in 1..Len(last'.tx.inputs) :
              UtxoStore[last'.tx.inputs[i].outpoint].destination.account
                  = last'.args.caller]_vars

\* the outputs of a signer that are paid to its public key
OwnedKeys(signer) ==
    {k \in DOMAIN UtxoStore :
        UtxoStore[k].destination.kind = "Pubkey" /\ UtxoStore[k].destination.pk = signer}

\* C36: send_to_address with a value above 0 and an address that decodes
\* succeeds whenever the Pubkey outputs of the caller are all without data
\* and hold the value in total, also when the outputs picked hold exactly
\* the value: it spends the outputs picked, pays the value and the change,
\* and adds nothing to RewardTotal. (Stated for the calls whose picked
\* outputs hold no more than ValueMax.)
C36_SendToAddress ==
    [][(/\ last'.op = "send_to_address"
        /\ last'.args.value > 0
        /\ decode_address(last'.args.dest).err = "ok"
        /\ \A k \in OwnedKeys(last'.args.caller) : UtxoStore[k].data = NoData
        /\ ValuesAt(UtxoStore, OwnedKeys(last'.args.caller)) >= last'.args.value
        /\ last'.native_in <= ValueMax) =>
          /\ last'.err = "ok"
          /\ RewardTotal' = RewardTotal
          /\ \A i \in 1..Len(last'.tx.inputs) :
                 last'.tx.inputs[i].outpoint \notin DOMAIN UtxoStore'
          /\ UtxoStore'[outpoint(last'.tx, 0)].value = last'.args.value
          /\ UtxoStore'[outpoint(last'.tx, 1)].value
                 = last'.native_in - last'.args.value]_vars

\* the locked outputs whose destination names the stash
LockedOf(locked, stash) ==
    {k \in DOMAIN locked :
        /\ locked[k].destination.kind \in {"LockForStaking", "LockExtraForStaking"}
        /\ locked[k].destination.stash_account = stash}

\* C37: validate_withdrawal succeeds only for a stash that has a
\* StakingCount entry and a list that names every locked output of the
\* stash and each of them once.
C37_WithdrawalNamesAll ==
    [][(stk'.op = "withdraw"
        /\ validate_withdrawal(StakingState, stk'.stash, stk'.outpoints) = "ok") =>
          /\ stk'.stash \in DOMAIN StakingCount
          /\ Len(stk'.outpoints) = StakingCount[stk'.stash][1]
          /\ Range(stk'.outpoints) = LockedOf(LockedUtxos, stk'.stash)
          /\ Cardinality(Range(stk'.outpoints)) = Len(stk'.outpoints)]_vars

\* C38: after a withdraw that succeeded the stash has no StakingCount entry
\* and no locked output, UtxoStore holds at the hash of the outpoints one
\* Pubkey output of the stash whose value is the staked total less the
\* fee, and RewardTotal has grown by the fee.
C38_WithdrawConsolidates ==
    [][(stk'.op = "withdraw" /\ stk'.err = "ok") =>
          /\ stk'.stash \notin DOMAIN StakingCount'
          /\ LockedOf(LockedUtxos', stk'.stash) = {}
          /\ UtxoStore'[hash_of_outpoints(stk'.outpoints)]
                 = new_pubkey(ValuesAt(LockedUtxos, LockedOf(LockedUtxos, stk'.stash))
                                  - StakeWithdrawalFee,
                              stk'.stash)
          /\ RewardTotal' = RewardTotal + StakeWithdrawalFee]_vars

\* C39: the StakingCount entry of every stash is the number and the total
\* value of the locked outputs that name it, and a stash without an entry
\* has no locked output.
C39_StakingCountMatches ==
    \A stash \in Accounts :
        IF stash \in DOMAIN StakingCount
        THEN StakingCount[stash]
                 = << Cardinality(LockedOf(LockedUtxos, stash)),
                      ValuesAt(LockedUtxos, LockedOf(LockedUtxos, stash)) >>
        ELSE LockedOf(LockedUtxos, stash) = {}

\* two inputs of the transaction share an outpoint
SharedOutpoint(tx) ==
    \E i, j \in DOMAIN tx.inputs : i < j /\ tx.inputs[i].outpoint = tx.inputs[j].outpoint
\* two outputs of the transaction are equal
EqualOutputs(tx) ==
    \E i, j \in DOMAIN tx.outputs : i < j /\ tx.outputs[i] = tx.outputs[j]

\* C40: for a transaction with an input and an output whose inputs all
\* resolve in the utxo set, checking_inputs fails with "each input should be
\* used only once" exactly when two inputs share an outpoint, and
\* checking_outputs fails with "each output should be used once" exactly
\* when two outputs are equal.
C40_UsedOnce ==
    (/\ Len(ver.tx.inputs) >= 1
     /\ Len(ver.tx.outputs) >= 1
     /\ \A i \in DOMAIN ver.tx.inputs : ver.tx.inputs[i].outpoint \in DOMAIN UtxoStore) =>
        /\ ver.inputs # "pending" =>
              ((ver.inputs = "each input should be used only once")
                  <=> SharedOutpoint(ver.tx))
        /\ ver.outputs # "pending" =>
              ((ver.outputs = "each output should be used once")
                  <=> EqualOutputs(ver.tx))

====
